---- MODULE Spec2Model ----
(***************************************************************************)
(* Synchronized-playback protocol of music-sync.                           *)
(*                                                                         *)
(* Server side (src/server/src/index.ts): the in-memory maps rooms,        *)
(* playbackStates and queues, the per-socket closure variables currentUser *)
(* and currentRoom, and one action per socket.io event handler.            *)
(* Client side (src/client/src/App.tsx): the playback state kept by App    *)
(* and one action per delivered broadcast and per start timer; the clock   *)
(* estimate of useTimeSync.ts and the room view of useRoomPresence.ts.     *)
(*                                                                         *)
(* Units: every instant is in milliseconds of the server clock.  Every     *)
(* position (positionSec in the source) is held in milliseconds too, so    *)
(* that the source's "/ 1000" and "* 1000" conversions are exact in        *)
(* integer arithmetic: a source position of p seconds is 1000 * p here.    *)
(*                                                                         *)
(* Not modelled, because nothing modelled reads them: state.lastUpdate     *)
(* (written, never read), the users and sessions maps, chat history, the   *)
(* HTTP routes.                                                            *)
(***************************************************************************)
EXTENDS Integers, Sequences, FiniteSets, TLC

\* ------------------------------------------------------------------------
\* Bounds and input alphabets
\* ------------------------------------------------------------------------

\* Sockets that connect during a run.
Conns == {"c1", "c2", "c3"}

\* Display names (already trimmed, at most 32 characters).
Names == {"A", "B", "C"}

\* Raw strings a client may send as a name: a name, a padded name, blanks.
RawNames == Names \cup {"B ", " ", ""}

\* Values Math.random() can produce as a room id.
RoomIds == {"R1", "R2"}

\* Track locators; a control:load may also carry an empty trackUrl.
Tracks == {"t1"}

\* Positions the audio element may report to a drift tick, in milliseconds:
\* on, behind and ahead of the positions a timeline takes.
AudioReadings == {p + d : p \in {0, 1000, 2000}, d \in {-30, 0, 10}}

\* Seek targets, in milliseconds.
SeekTargets == {2000}

\* Ids a queue item can get.
ItemIds == {"i1"}

\* Urls and item ids of the queue specification.
QueueUrls == {"t1", "t2"}

QueueItemIds == {"i1", "i2", "i3"}

\* Client clock readings a ping may carry (no server clock reading).
PingStamps == {777}

\* Steps by which the server clock advances between two handlers.
TickSteps == {500}

\* The registry specification lets the clock advance this many steps.
MaxTicks == 2

\* Positions explored (milliseconds): a pause is explored only while the
\* position it stores is not below -PosBound.
PosBound == 1500

\* The synchronization specification lets the clock advance this many steps.
MaxSyncTicks == 5

\* Timeline commands the owner sends in the synchronization specification.
MaxCommands == 4

\* Most playback messages in flight to one client.
MaxWire == 2

\* Longest queue explored.
MaxQueue == 3

\* Clock steps in a run of the queue specification, each of QueueTickStep.
MaxQueueTicks == 2

\* Steps of the clock in the queue specification: half the window in which
\* queue:add takes a repeated url for a duplicate.
QueueTickSteps == {1000}

\* Commands and pings in a run of the client specification.
MaxClientSteps == 3

\* Clock steps in a run of the client specification.
MaxClientTicks == 4

\* Pings handled in a run of the clock-estimation specification.
MaxPings == 3

\* Clock steps in a run of the clock-estimation specification.
MaxPongTicks == 3

\* Commands naming a room in a run of the access specification.
MaxAccessCommands == 2

\* Most room notices in flight to one client in the presence specification.
MaxNotices == 3

\* Most fetchSockets() callbacks pending at once in the presence specification.
MaxPending == 2

Null == "null"

\* null for a start instant (startTimeMs / startAtServerMs / plannedStart).
NoTime == -1

\* ------------------------------------------------------------------------
\* State
\* ------------------------------------------------------------------------

VARIABLES
  status,          \* socket lifecycle: "idle" (not yet connected), "open", "closed"
  currentUser,     \* per socket: closure variable currentUser (Null = null)
  currentRoom,     \* per socket: closure variable currentRoom (Null = null)
  joined,          \* per socket: socket.io rooms the socket has joined
  rooms,           \* Map roomId -> [ownerId, participants]
  playbackStates,  \* Map roomId -> [isPlaying, positionSec, trackUrl, startTime]
  queues,          \* Map roomId -> list of queue items (absent = empty)
  pendingRole,     \* fetchSockets().then callbacks not yet run
  now,             \* Date.now() on the server
  emitted,         \* messages emitted by the last handler, in order
  reply,           \* value passed to the acknowledgement callback by the last handler
  wire,            \* per socket: playback messages sent and not yet handled by the client
  client,          \* per socket: playback state of the App component
  timers,          \* per socket: start callbacks armed with window.setTimeout
  issued           \* number of timeline commands the owner has sent (SpecSync)

serverVars == <<status, currentUser, currentRoom, joined, rooms, playbackStates,
                queues, pendingRole>>

clientVars == <<wire, client, timers, issued>>

vars == <<status, currentUser, currentRoom, joined, rooms, playbackStates,
          queues, pendingRole, now, emitted, reply, wire, client, timers, issued>>

\* ------------------------------------------------------------------------
\* Messages and replies
\* ------------------------------------------------------------------------

NoReply == [kind |-> "none", reason |-> ""]

Ok == [kind |-> "ok", reason |-> ""]

Fail(reason) == [kind |-> "fail", reason |-> reason]

Msg0 ==
  [ev |-> Null, to |-> {}, trackUrl |-> "", isPlaying |-> FALSE, positionSec |-> 0,
   startAt |-> NoTime, serverNowMs |-> NoTime, ownerName |-> "", participants |-> <<>>,
   role |-> "", reason |-> "", items |-> <<>>]

\* String.prototype.trim on the raw strings of the input alphabet.
Trim(s) ==
  CASE s = " " -> ""
    [] s = "B " -> "B"
    [] OTHER -> s

\* Sockets a room-wide emit reaches, given the socket.io room membership j.
SocketsIn(st, j, rid) == {c \in Conns : st[c] = "open" /\ rid \in j[c]}

RemoveAll(seq, x) == SelectSeq(seq, LAMBDA p : p # x)

InSeq(seq, x) == \E i \in 1..Len(seq) : seq[i] = x

MapPut(m, k, v) == [x \in (DOMAIN m) \cup {k} |-> IF x = k THEN v ELSE m[x]]

MapDel(m, k) == [x \in (DOMAIN m) \ {k} |-> m[x]]

\* getQueue: the stored list, or an empty one.
getQueue(rid) == queues[rid]

\* getCurrentPositionSec, evaluated on a timeline record at clock reading t.
PositionOfMut(state, t) == state.positionSec

PositionOf(state, t) ==
  IF ~state.isPlaying THEN state.positionSec
  ELSE state.positionSec + (t - state.startTime)

getCurrentPositionSec(rid) ==
  IF rid \notin DOMAIN playbackStates THEN 0
  ELSE PositionOf(playbackStates[rid], now)

\* buildRoomState over a given rooms map.
buildRoomState(rms, rid) ==
  [roomId |-> rid,
   ownerName |-> IF rid \in DOMAIN rms THEN rms[rid].ownerId ELSE "",
   participants |-> IF rid \in DOMAIN rms THEN rms[rid].participants ELSE <<>>]

RoomMsg(ev, rms, j, rid) ==
  [Msg0 EXCEPT !.ev = ev, !.to = SocketsIn(status, j, rid),
               !.ownerName = buildRoomState(rms, rid).ownerName,
               !.participants = buildRoomState(rms, rid).participants]

\* No drift-correction loop is running (correctionTimerRef.current == null).
NoCorrection ==
  [active |-> FALSE, basePositionSec |-> 0, startAtServerMs |-> NoTime,
   offsetMs |-> 0, nextTickMs |-> NoTime]

\* audio.playbackRate = 1.  The rate is held in 1/2000ths, so that half an
\* error of a whole number of milliseconds is a whole number.
RateOne == 2000

\* The App component after its first render.  playbackRate is in 1/2000ths;
\* currentTime is the value last assigned to audio.currentTime, and atSet
\* what the drift loop and the rate were when it was assigned; intervals
\* counts the setInterval handles that have not been cleared.
\* useTimeSync starts with offsetMs 0 and rttMs null; clockSkewMs is what the
\* client's Date.now() reads minus the server's.  ownerName and participants
\* are the state of useRoomPresence.
Client0 ==
  [trackUrl |-> "", isPlaying |-> FALSE, positionBaseSec |-> 0,
   plannedStartServerMs |-> NoTime, currentTime |-> 0, audioPaused |-> TRUE,
   playbackRate |-> RateOne, correction |-> NoCorrection,
   atSet |-> [loop |-> FALSE, playbackRate |-> RateOne], intervals |-> 0,
   offsetMs |-> 0, rttMs |-> NoTime, clockSkewMs |-> 0,
   ownerName |-> "", participants |-> <<>>]

\* ------------------------------------------------------------------------
\* Initial state: the server has just started, no socket is connected.
\* ------------------------------------------------------------------------

Init ==
  /\ status = [c \in Conns |-> "idle"]
  /\ currentUser = [c \in Conns |-> Null]
  /\ currentRoom = [c \in Conns |-> Null]
  /\ joined = [c \in Conns |-> {}]
  /\ rooms = << >>
  /\ playbackStates = << >>
  /\ queues = [r \in RoomIds |-> <<>>]
  /\ pendingRole = <<>>
  /\ now = 0
  /\ emitted = <<>>
  /\ reply = NoReply
  /\ wire = [c \in Conns |-> <<>>]
  /\ client = [c \in Conns |-> Client0]
  /\ timers = [c \in Conns |-> {}]
  /\ issued = 0

SilentMut ==
  /\ emitted' = <<>>
  /\ reply' = Fail("Room not found")
  /\ UNCHANGED serverVars

\* A handler that returns without touching anything and without a message.
Silent ==
  /\ emitted' = <<>>
  /\ reply' = NoReply
  /\ UNCHANGED serverVars

\* A handler that only answers its acknowledgement callback with a failure.
Refuse(reason) ==
  /\ emitted' = <<>>
  /\ reply' = Fail(reason)
  /\ UNCHANGED serverVars

\* socket.emit('control:denied', {reason}) and return.
Denied(c, reason) ==
  /\ emitted' = << [Msg0 EXCEPT !.ev = "control:denied", !.to = {c}, !.reason = reason] >>
  /\ reply' = NoReply
  /\ UNCHANGED serverVars

\* io.on('connection'): the closure variables start as null.
Connect(c) ==
  /\ status[c] = "idle"
  /\ status' = [status EXCEPT ![c] = "open"]
  /\ emitted' = <<>>
  /\ reply' = NoReply
  /\ UNCHANGED <<currentUser, currentRoom, joined, rooms, playbackStates, queues,
                 pendingRole, now>>

\* The clock reading after n steps of the largest size.
Horizon(n) == n * 500

\* The server clock advances.
Tick(limit) ==
  /\ \E d \in TickSteps :
       /\ now + d <= limit
       /\ now' = now + d
  /\ UNCHANGED <<serverVars, emitted, reply>>

\* The server clock advances by d.
Advance(d, limit) ==
  /\ now + d <= limit
  /\ now' = now + d
  /\ UNCHANGED <<serverVars, emitted, reply>>

\* user:setName
SetName(c, raw) ==
  /\ status[c] = "open"
  /\ UNCHANGED now
  /\ LET trimmed == Trim(raw) IN
     IF trimmed = "" THEN Refuse("Name required")
     ELSE /\ currentUser' = [currentUser EXCEPT ![c] = trimmed]
          /\ emitted' = << [Msg0 EXCEPT !.ev = "user:ready", !.to = {c},
                                        !.ownerName = trimmed] >>
          /\ reply' = Ok
          /\ UNCHANGED <<status, currentRoom, joined, rooms, playbackStates, queues,
                         pendingRole>>

\* The record room:create stores for its caller.
NewRoomMut(user) == [ownerId |-> user, participants |-> <<user, user>>]

NewRoom(user) == [ownerId |-> user, participants |-> <<user>>]

\* room:create; rid is the id Math.random() produced.
RoomCreate(c, rid) ==
  /\ status[c] = "open"
  /\ UNCHANGED now
  /\ IF currentUser[c] = Null THEN Refuse("Not authenticated")
     ELSE LET rms == MapPut(rooms, rid, NewRoom(currentUser[c]))
              j == [joined EXCEPT ![c] = @ \cup {rid}]
          IN /\ rooms' = rms
             /\ currentRoom' = [currentRoom EXCEPT ![c] = rid]
             /\ joined' = j
             /\ emitted' = << RoomMsg("room:info", rms, j, rid),
                              RoomMsg("room:state", rms, j, rid) >>
             /\ reply' = Ok
             /\ UNCHANGED <<status, currentUser, playbackStates, queues, pendingRole>>

\* room:join of an unknown room id: the callback gets the failure, nothing else.
JoinNotFoundMut(c, rid) ==
  /\ emitted' = <<>>
  /\ reply' = Fail("Room not found")
  /\ currentRoom' = [currentRoom EXCEPT ![c] = rid]
  /\ UNCHANGED <<status, currentUser, joined, rooms, playbackStates, queues, pendingRole>>

JoinNotFound(c, rid) == Refuse("Room not found")

\* The participants list after user joins: pushed only when not included yet.
AddParticipantMut(participants, user) == Append(participants, user)

AddParticipant(participants, user) ==
  IF InSeq(participants, user) THEN participants ELSE Append(participants, user)

\* room:join
RoomJoin(c, rid) ==
  /\ status[c] = "open"
  /\ UNCHANGED now
  /\ IF currentUser[c] = Null THEN Refuse("Not authenticated")
     ELSE IF rid \notin DOMAIN rooms THEN JoinNotFound(c, rid)
     ELSE LET room == rooms[rid]
              parts == AddParticipant(room.participants, currentUser[c])
              rms == [rooms EXCEPT ![rid].participants = parts]
              j == [joined EXCEPT ![c] = @ \cup {rid}]
              hasState == rid \in DOMAIN playbackStates
              currentPosition == getCurrentPositionSec(rid)
              joinStartDelayMs == 2500
              init == IF hasState
                      THEN << [Msg0 EXCEPT !.ev = "state:init", !.to = {c},
                                 !.trackUrl = playbackStates[rid].trackUrl,
                                 !.isPlaying = playbackStates[rid].isPlaying,
                                 !.positionSec = currentPosition,
                                 !.startAt = IF playbackStates[rid].isPlaying
                                             THEN playbackStates[rid].startTime
                                             ELSE NoTime,
                                 !.serverNowMs = now] >>
                      ELSE <<>>
              catchUp == IF hasState /\ playbackStates[rid].isPlaying
                         THEN << [Msg0 EXCEPT !.ev = "play", !.to = {c},
                                    !.trackUrl = playbackStates[rid].trackUrl,
                                    !.positionSec = currentPosition + joinStartDelayMs,
                                    !.startAt = now + joinStartDelayMs] >>
                         ELSE <<>>
          IN /\ rooms' = rms
             /\ currentRoom' = [currentRoom EXCEPT ![c] = rid]
             /\ joined' = j
             /\ emitted' = init \o catchUp \o
                           << RoomMsg("room:info", rms, j, rid),
                              RoomMsg("room:state", rms, j, rid) >>
             /\ reply' = Ok
             /\ UNCHANGED <<status, currentUser, playbackStates, queues, pendingRole>>

\* timesync:ping (numeric payload)
TimesyncPing(c, clientSendMs) ==
  /\ status[c] = "open"
  /\ emitted' = << [Msg0 EXCEPT !.ev = "timesync:pong", !.to = {c},
                                !.serverNowMs = now, !.startAt = clientSendMs] >>
  /\ reply' = NoReply
  /\ UNCHANGED <<serverVars, now>>

\* room.ownerId !== currentUser fails, i.e. the sender passes the owner gate.
IsOwnerMut(c, rid) == InSeq(rooms[rid].participants, currentUser[c])

IsOwner(c, rid) == rooms[rid].ownerId = currentUser[c]

\* The payload check of control:load (the room id is never empty here).
LoadPayloadOkMut(url) == TRUE

LoadPayloadOk(url) == url # ""

LoadedStateMut(url) ==
  [isPlaying |-> FALSE, positionSec |-> 0, trackUrl |-> url, startTime |-> 0]

\* The record control:load, queue:playNow and playback:ended store.
LoadedState(url) ==
  [isPlaying |-> FALSE, positionSec |-> 0, trackUrl |-> url, startTime |-> now]

StateUpdateMsg(rid, url) ==
  [Msg0 EXCEPT !.ev = "state:update", !.to = SocketsIn(status, joined, rid),
               !.trackUrl = url, !.isPlaying = FALSE, !.positionSec = 0,
               !.serverNowMs = now]

\* control:load
ControlLoad(c, rid, url) ==
  /\ status[c] = "open"
  /\ UNCHANGED now
  /\ IF ~LoadPayloadOk(url) THEN Silent
     ELSE IF rid \notin DOMAIN rooms THEN Silent
     ELSE IF ~IsOwner(c, rid) THEN Denied(c, "Only the room owner can load tracks")
     ELSE /\ playbackStates' = MapPut(playbackStates, rid, LoadedState(url))
          /\ emitted' = << StateUpdateMsg(rid, url) >>
          /\ reply' = NoReply
          /\ UNCHANGED <<status, currentUser, currentRoom, joined, rooms, queues,
                         pendingRole>>

\* The timeline record after a play is scheduled: running, start 1500 ms ahead.
PlayStateMut(state) ==
  [state EXCEPT !.isPlaying = TRUE, !.startTime = now + 1500,
                !.positionSec = IF state.isPlaying
                                THEN state.positionSec + (now - state.startTime)
                                ELSE state.positionSec]

PlayState(state) ==
  LET startDelayMs == 1500
      plannedStartAtMs == now + startDelayMs
  IN [state EXCEPT !.isPlaying = TRUE, !.startTime = plannedStartAtMs]

PlayMsgs(rid, state) ==
  << [Msg0 EXCEPT !.ev = "play", !.to = SocketsIn(status, joined, rid),
                  !.trackUrl = state.trackUrl, !.positionSec = state.positionSec,
                  !.startAt = state.startTime],
     RoomMsg("room:state", rooms, joined, rid) >>

\* control:play
ControlPlay(c, rid) ==
  /\ status[c] = "open"
  /\ UNCHANGED now
  /\ IF rid \notin DOMAIN rooms THEN Silent
     ELSE IF ~IsOwner(c, rid) THEN Denied(c, "Only the room owner can play/pause")
     ELSE IF rid \notin DOMAIN playbackStates THEN Silent
     ELSE LET state == PlayState(playbackStates[rid]) IN
          /\ playbackStates' = [playbackStates EXCEPT ![rid] = state]
          /\ emitted' = PlayMsgs(rid, state)
          /\ reply' = NoReply
          /\ UNCHANGED <<status, currentUser, currentRoom, joined, rooms, queues,
                         pendingRole>>

\* control:pause
ControlPause(c, rid) ==
  /\ status[c] = "open"
  /\ UNCHANGED now
  /\ IF rid \notin DOMAIN rooms THEN Silent
     ELSE IF ~IsOwner(c, rid) THEN Denied(c, "Only the room owner can play/pause")
     ELSE IF rid \notin DOMAIN playbackStates THEN Silent
     ELSE LET currentPosition == getCurrentPositionSec(rid) IN
          /\ currentPosition >= -PosBound
          /\ playbackStates' = [playbackStates EXCEPT ![rid].isPlaying = FALSE,
                                                      ![rid].positionSec = currentPosition]
          /\ emitted' = << [Msg0 EXCEPT !.ev = "pause",
                                        !.to = SocketsIn(status, joined, rid),
                                        !.positionSec = currentPosition,
                                        !.serverNowMs = now],
                           RoomMsg("room:state", rooms, joined, rid) >>
          /\ reply' = NoReply
          /\ UNCHANGED <<status, currentUser, currentRoom, joined, rooms, queues,
                         pendingRole>>

\* The timeline record after a seek: a running timeline is re-armed 1000 ms ahead.
SeekStateMut(state, positionSec) ==
  IF state.isPlaying
  THEN [state EXCEPT !.positionSec = positionSec, !.startTime = positionSec]
  ELSE [state EXCEPT !.positionSec = positionSec]

SeekState(state, positionSec) ==
  LET startDelayMs == 1000
      plannedStartAtMs == now + startDelayMs
  IN IF state.isPlaying
     THEN [state EXCEPT !.positionSec = positionSec, !.startTime = plannedStartAtMs]
     ELSE [state EXCEPT !.positionSec = positionSec]

\* startAtServerMs of the seek broadcast: null unless the timeline is running.
SeekStartAtMut(state) == state.startTime

SeekStartAt(state) == IF state.isPlaying THEN state.startTime ELSE NoTime

\* control:seek (numeric positionSec)
ControlSeek(c, rid, positionSec) ==
  /\ status[c] = "open"
  /\ UNCHANGED now
  /\ IF rid \notin DOMAIN rooms THEN Silent
     ELSE IF ~IsOwner(c, rid) THEN Denied(c, "Only the room owner can seek")
     ELSE IF rid \notin DOMAIN playbackStates THEN Silent
     ELSE LET state == SeekState(playbackStates[rid], positionSec) IN
          /\ playbackStates' = [playbackStates EXCEPT ![rid] = state]
          /\ emitted' = << [Msg0 EXCEPT !.ev = "seek",
                                        !.to = SocketsIn(status, joined, rid),
                                        !.positionSec = positionSec,
                                        !.startAt = SeekStartAt(state)],
                           RoomMsg("room:state", rooms, joined, rid) >>
          /\ reply' = NoReply
          /\ UNCHANGED <<status, currentUser, currentRoom, joined, rooms, queues,
                         pendingRole>>

QueueMsg(rid, items) ==
  [Msg0 EXCEPT !.ev = "queue:update", !.to = SocketsIn(status, joined, rid),
               !.items = items]

\* queue:add with a non-blank url; id is the id generated for the new item.
QueueAdd(c, rid, url, id) ==
  /\ status[c] = "open"
  /\ UNCHANGED now
  /\ IF rid \notin DOMAIN rooms THEN Refuse("Room not found")
     ELSE IF ~IsOwner(c, rid) THEN Refuse("Only owner can add to queue")
     ELSE LET q == getQueue(rid)
              last == q[Len(q)]
          IN IF Len(q) > 0 /\ last.url = url /\ last.addedBy = currentUser[c]
                /\ now - last.addedAt < 2000
             THEN /\ emitted' = <<>>
                  /\ reply' = Ok
                  /\ UNCHANGED serverVars
             ELSE /\ Len(q) < MaxQueue
                  /\ \A i \in 1..Len(q) : q[i].id # id
                  /\ LET item == [id |-> id, url |-> url, addedBy |-> currentUser[c],
                                  addedAt |-> now]
                         next == Append(q, item)
                     IN /\ queues' = [queues EXCEPT ![rid] = next]
                        /\ emitted' = << QueueMsg(rid, next) >>
                        /\ reply' = Ok
                        /\ UNCHANGED <<status, currentUser, currentRoom, joined, rooms,
                                       playbackStates, pendingRole>>

\* queue:remove
QueueRemove(c, rid, id) ==
  /\ status[c] = "open"
  /\ UNCHANGED now
  /\ IF rid \notin DOMAIN rooms THEN Refuse("Room not found")
     ELSE IF ~IsOwner(c, rid) THEN Refuse("Only owner can remove from queue")
     ELSE LET next == SelectSeq(getQueue(rid), LAMBDA x : x.id # id) IN
          /\ queues' = [queues EXCEPT ![rid] = next]
          /\ emitted' = << QueueMsg(rid, next) >>
          /\ reply' = Ok
          /\ UNCHANGED <<status, currentUser, currentRoom, joined, rooms,
                         playbackStates, pendingRole>>

\* Index of the item with the given id, 0 when absent (findIndex).
findIndex(q, id) ==
  IF \E i \in 1..Len(q) : q[i].id = id
  THEN CHOOSE i \in 1..Len(q) : q[i].id = id /\ \A k \in 1..(i - 1) : q[k].id # id
  ELSE 0

\* q.splice(idx, 1): the list without its idx-th item.
splice(q, idx) == SubSeq(q, 1, idx - 1) \o SubSeq(q, idx + 1, Len(q))

LoadAndScheduleMut(rid, item, rest) ==
  /\ playbackStates' = MapPut(playbackStates, rid, LoadedState(item.url))
  /\ queues' = [queues EXCEPT ![rid] = rest]
  /\ emitted' = << StateUpdateMsg(rid, item.url), QueueMsg(rid, rest) >>

\* Load an item taken from the queue and schedule its start
\* (playbackStates.set ... schedulePlayForRoom).
LoadAndSchedule(rid, item, rest) ==
  LET state == PlayState(LoadedState(item.url)) IN
  /\ playbackStates' = MapPut(playbackStates, rid, state)
  /\ queues' = [queues EXCEPT ![rid] = rest]
  /\ emitted' = << StateUpdateMsg(rid, item.url), QueueMsg(rid, rest) >>
                \o PlayMsgs(rid, state)

\* queue:playNow
QueuePlayNow(c, rid, id) ==
  /\ status[c] = "open"
  /\ UNCHANGED now
  /\ IF rid \notin DOMAIN rooms THEN Refuse("Room not found")
     ELSE IF ~IsOwner(c, rid) THEN Refuse("Only owner can play now")
     ELSE LET q == getQueue(rid)
              idx == findIndex(q, id)
          IN IF idx = 0 THEN Refuse("Item not found")
             ELSE /\ LoadAndSchedule(rid, q[idx], splice(q, idx))
                  /\ reply' = Ok
                  /\ UNCHANGED <<status, currentUser, currentRoom, joined, rooms,
                                 pendingRole>>

\* playback:ended
PlaybackEnded(c, rid) ==
  /\ status[c] = "open"
  /\ UNCHANGED now
  /\ IF rid \notin DOMAIN rooms THEN Silent
     ELSE IF ~IsOwner(c, rid) THEN Silent
     ELSE LET q == getQueue(rid) IN
          IF Len(q) = 0 THEN Silent
          ELSE /\ LoadAndSchedule(rid, Head(q), Tail(q))
               /\ reply' = NoReply
               /\ UNCHANGED <<status, currentUser, currentRoom, joined, rooms,
                              pendingRole>>

\* The owner a successful transfer assigns.
NewOwnerMut(room, target) == room.ownerId

NewOwner(room, target) == target

\* room.participants.includes(target) of room:transferOwner.
TargetIsMemberMut(room, target) == TRUE

TargetIsMember(room, target) == InSeq(room.participants, target)

\* room:transferOwner, up to the fetchSockets() call; the role notices are
\* emitted by RoleNotify when the promise resolves.
TransferOwner(c, rid, raw) ==
  /\ status[c] = "open"
  /\ UNCHANGED now
  /\ IF Trim(raw) = "" THEN Refuse("Invalid payload")
     ELSE IF rid \notin DOMAIN rooms THEN Refuse("Room not found")
     ELSE IF ~IsOwner(c, rid) THEN Refuse("Only the owner can transfer ownership")
     ELSE LET target == Trim(raw) IN
          IF ~TargetIsMember(rooms[rid], target)
          THEN Refuse("Target user is not in the room")
          ELSE IF target = rooms[rid].ownerId THEN Refuse("User is already the owner")
          ELSE LET rms == [rooms EXCEPT ![rid].ownerId = NewOwner(rooms[rid], target)] IN
               /\ rooms' = rms
               /\ emitted' = << [Msg0 EXCEPT !.ev = "room:ownerChanged",
                                             !.to = SocketsIn(status, joined, rid),
                                             !.ownerName = rms[rid].ownerId],
                                RoomMsg("room:info", rms, joined, rid),
                                RoomMsg("room:state", rms, joined, rid) >>
               /\ pendingRole' = Append(pendingRole,
                                   [roomId |-> rid, conn |-> c, to |-> target])
               /\ reply' = Ok
               /\ UNCHANGED <<status, currentUser, currentRoom, joined, playbackStates,
                              queues>>

\* The registry after the .then callback of fetchSockets(): the callback only
\* reads room.ownerId, every write of the handler precedes the call.
RoomsAfterNotifyMut(rms, p) == [rms EXCEPT ![p.roomId].ownerId = currentUser[p.conn]]

RoomsAfterNotify(rms, p) == rms

RoleNoteMut(s, role, owner) ==
  [Msg0 EXCEPT !.ev = "role:update", !.to = {s}, !.role = "member", !.ownerName = owner]

\* emit('role:update', { role, ownerName: room.ownerId }) on the socket s.
RoleNote(s, role, owner) ==
  [Msg0 EXCEPT !.ev = "role:update", !.to = {s}, !.role = role, !.ownerName = owner]

\* The .then callback of fetchSockets(): role:update to the first socket of the
\* room named `by` and to the first one named `to`.  The callback runs as a
\* microtask of the handler, so the room it closed over is still rooms[roomId].
\* Which of several equally named sockets sockets.find returns depends on the
\* adapter's iteration order, left open here.
RoleNotify ==
  /\ pendingRole # <<>>
  /\ LET p == Head(pendingRole)
         sockets == SocketsIn(status, joined, p.roomId)
         named(n) == {s \in sockets : currentUser[s] = n}
         owner == rooms[p.roomId].ownerId
         note(s, role) == RoleNote(s, role, owner)
         by == currentUser[p.conn]
     IN \E prev \in IF named(by) = {} THEN {Null} ELSE named(by),
           new \in IF named(p.to) = {} THEN {Null} ELSE named(p.to) :
          emitted' = (IF prev = Null THEN <<>> ELSE << note(prev, "member") >>)
                     \o (IF new = Null THEN <<>> ELSE << note(new, "owner") >>)
  /\ pendingRole' = Tail(pendingRole)
  /\ reply' = NoReply
  /\ rooms' = RoomsAfterNotify(rooms, Head(pendingRole))
  /\ UNCHANGED <<status, currentUser, currentRoom, joined, playbackStates, queues, now>>

\* What the disconnect handler makes of a room that user leaves: the room is
\* deleted, or kept with the new participants list and owner.
AfterLeaveMut(room, user) ==
  LET parts == RemoveAll(room.participants, user) IN
  IF room.ownerId = user /\ Len(parts) > 0
  THEN [deleted |-> FALSE, ownerChanged |-> TRUE,
        room |-> [ownerId |-> parts[1], participants |-> parts]]
  ELSE [deleted |-> FALSE, ownerChanged |-> FALSE,
        room |-> [ownerId |-> room.ownerId, participants |-> parts]]

AfterLeave(room, user) ==
  LET parts == RemoveAll(room.participants, user) IN
  IF room.ownerId = user
  THEN IF Len(parts) > 0
       THEN [deleted |-> FALSE, ownerChanged |-> TRUE,
             room |-> [ownerId |-> parts[1], participants |-> parts]]
       ELSE [deleted |-> TRUE, ownerChanged |-> FALSE, room |-> room]
  ELSE [deleted |-> FALSE, ownerChanged |-> FALSE,
        room |-> [ownerId |-> room.ownerId, participants |-> parts]]

TimelinesAfterDeleteMut(states, rid) == states

\* playbackStates once the room rid has been deleted.
TimelinesAfterDelete(states, rid) == MapDel(states, rid)

\* disconnect: socket.io has already removed the socket from its rooms.  The
\* closure of a closed socket is never entered again; its variables are
\* cleared here so that closed sockets are not told apart by them.
Disconnect(c) ==
  /\ status[c] = "open"
  /\ UNCHANGED now
  /\ LET st == [status EXCEPT ![c] = "closed"]
         j == [joined EXCEPT ![c] = {}]
         rid == currentRoom[c]
     IN /\ status' = st
        /\ joined' = j
        /\ reply' = NoReply
        /\ currentUser' = [currentUser EXCEPT ![c] = Null]
        /\ currentRoom' = [currentRoom EXCEPT ![c] = Null]
        /\ UNCHANGED <<queues, pendingRole>>
        /\ IF rid # Null /\ currentUser[c] # Null /\ rid \in DOMAIN rooms
           THEN LET left == AfterLeave(rooms[rid], currentUser[c]) IN
                IF left.deleted
                THEN /\ rooms' = MapDel(rooms, rid)
                     /\ playbackStates' = TimelinesAfterDelete(playbackStates, rid)
                     /\ emitted' = <<>>
                ELSE /\ rooms' = [rooms EXCEPT ![rid] = left.room]
                     /\ emitted' = IF left.ownerChanged
                                   THEN << [Msg0 EXCEPT !.ev = "room:ownerChanged",
                                                        !.to = SocketsIn(st, j, rid),
                                                        !.ownerName = left.room.ownerId] >>
                                   ELSE <<>>
                     /\ UNCHANGED playbackStates
           ELSE /\ emitted' = <<>>
                /\ UNCHANGED <<rooms, playbackStates>>

\* ------------------------------------------------------------------------
\* Registry specification: connections, names, rooms, membership, authority.
\* Two sockets, two names (shared or changed at will), two room ids.
\* A pending fetchSockets() callback runs before the next handler.
\* ------------------------------------------------------------------------

RegConns == {"c1", "c2"}

RegRawNames == {"A", "B", "B ", " ", ""}

RegistryHandler ==
  \E c \in RegConns :
    \/ Connect(c)
    \/ \E raw \in RegRawNames : SetName(c, raw)
    \/ \E rid \in RoomIds : RoomCreate(c, rid)
    \/ \E rid \in RoomIds : RoomJoin(c, rid)
    \/ \E rid \in RoomIds, raw \in RegRawNames : TransferOwner(c, rid, raw)
    \/ Disconnect(c)

Next ==
  \/ pendingRole = <<>> /\ RegistryHandler /\ UNCHANGED clientVars
  \/ RoleNotify /\ UNCHANGED clientVars

Spec == Init /\ [][Next]_vars

\* ------------------------------------------------------------------------
\* Timeline specification: one room id, two sockets, every command that
\* touches the room's timeline or queue, and the server clock.
\* ------------------------------------------------------------------------

TlConns == {"c1", "c2"}

TlNames == {"A", "B", "C"}

TlRoom == "R1"

TimelineHandler ==
  \E c \in TlConns :
    \/ Connect(c)
    \/ SetName(c, IF c = "c1" THEN "A" ELSE "B")
    \/ RoomCreate(c, TlRoom)
    \/ RoomJoin(c, TlRoom)
    \/ \E url \in Tracks \cup {""} : ControlLoad(c, TlRoom, url)
    \/ ControlPlay(c, TlRoom)
    \/ ControlPause(c, TlRoom)
    \/ \E p \in SeekTargets : ControlSeek(c, TlRoom, p)
    \/ \E url \in Tracks, id \in ItemIds : QueueAdd(c, TlRoom, url, id)
    \/ \E id \in ItemIds : QueueRemove(c, TlRoom, id)
    \/ \E id \in ItemIds : QueuePlayNow(c, TlRoom, id)
    \/ PlaybackEnded(c, TlRoom)
    \/ \E t \in PingStamps : TimesyncPing(c, t)
    \/ \E n \in TlNames : TransferOwner(c, TlRoom, n)
    \/ Disconnect(c)

NextTimeline ==
  \/ pendingRole = <<>> /\ TimelineHandler /\ UNCHANGED clientVars
  \/ RoleNotify /\ UNCHANGED clientVars
  \/ Tick(Horizon(MaxTicks)) /\ UNCHANGED clientVars

SpecTimeline == Init /\ [][NextTimeline]_vars

\* ------------------------------------------------------------------------
\* Client (App.tsx).  serverNowMs() is the client's Date.now() plus its
\* offset estimate; in the synchronization specification both clocks agree
\* and the estimate stays 0, so a start armed for the server instant s fires
\* when the server clock reads s.  The awaits inside schedulePlay (primeAudio,
\* waitForReady) are taken to resolve at once.
\* ------------------------------------------------------------------------

\* Events handled by the playback handlers of App.
PlaybackEvents == {"state:init", "state:update", "play", "pause", "seek"}

Max0(x) == IF x > 0 THEN x ELSE 0

\* Date.now() on the client cl when the server clock reads t.
DateNow(cl, t) == t + cl.clockSkewMs

\* serverNowMs(): the client's estimate of the server clock.
serverNowMs(cl, t) == DateNow(cl, t) + cl.offsetMs

\* cancelDriftCorrection
cancelDriftCorrection(cl) ==
  [cl EXCEPT !.correction = NoCorrection, !.playbackRate = RateOne,
             !.intervals = IF cl.correction.active THEN @ - 1 ELSE @]

\* audio.currentTime = p
setCurrentTime(cl, p) ==
  [cl EXCEPT !.currentTime = p,
             !.atSet = [loop |-> cl.correction.active,
                        playbackRate |-> cl.playbackRate]]

\* startDriftCorrection called at server instant t.  The tick closure reads
\* the clock through the serverNowMs of the render that built it: offsetMs is
\* the estimate of that render.  The first tick is due 1000 ms later.
startDriftCorrection(cl, basePositionSec, startAtServerMs, offsetMs, t) ==
  [cancelDriftCorrection(cl) EXCEPT
     !.intervals = @ + 1,
     !.correction = [active |-> TRUE, basePositionSec |-> basePositionSec,
                     startAtServerMs |-> startAtServerMs,
                     offsetMs |-> offsetMs, nextTickMs |-> t + 1000]]

\* The start callback built by schedulePlay, run at server instant t.
start(cl, positionSec, startAtServerMs, offsetMs, t) ==
  [startDriftCorrection(cl, positionSec, startAtServerMs, offsetMs, t) EXCEPT
     !.audioPaused = FALSE, !.isPlaying = TRUE]

\* Math.max(lo, Math.min(hi, x))
clamp(x, lo, hi) == IF x < lo THEN lo ELSE IF x > hi THEN hi ELSE x

\* expectedSec of a tick at server instant t, in milliseconds.
expectedSec(cl, t) ==
  cl.correction.basePositionSec
  + Max0(DateNow(cl, t) + cl.correction.offsetMs - cl.correction.startAtServerMs)

RateAfterTickMut(errorSec) == RateOne + errorSec

\* 1 + correction, correction = clamp(k * errorSec, -0.02, 0.02) with k = 0.5:
\* in 1/2000ths, half an error of e ms is e, and 0.02 is 40.
RateAfterTick(errorSec) == RateOne + clamp(errorSec, -40, 40)

\* The tick of the drift loop; actualSec is what audio.currentTime reads.
tick(cl, actualSec, t) ==
  [cl EXCEPT !.playbackRate = RateAfterTick(expectedSec(cl, t) - actualSec),
             !.correction.nextTickMs = @ + 1000]

LateByMut(cl, startAtServerMs, t) == 0

\* lateBySec: the time elapsed since the start instant, by the client's
\* estimate of the server clock.
LateBy(cl, startAtServerMs, t) == Max0(serverNowMs(cl, t) - startAtServerMs)

\* schedulePlay(positionSec, startAtServerMs, {positionIsCurrent: false}) run
\* at server instant t: the new client record and the start timers it arms.
\* A timer is kept with the server instant at which its delay has run out.
schedulePlay(cl, positionSec, startAtServerMs, t) ==
  LET localStartMs == startAtServerMs - cl.offsetMs
      deltaMs == localStartMs - DateNow(cl, t)
      lateBySec == LateBy(cl, startAtServerMs, t)
      set == [setCurrentTime(cancelDriftCorrection(cl), positionSec + lateBySec)
                EXCEPT !.positionBaseSec = positionSec,
                       !.plannedStartServerMs = startAtServerMs,
                       !.audioPaused = TRUE]
  IN IF deltaMs > 30
     THEN [client |-> set,
           arm |-> {[fireAt |-> t + deltaMs, positionSec |-> positionSec,
                     startAtServerMs |-> startAtServerMs, offsetMs |-> cl.offsetMs]}]
     ELSE [client |-> start(set, positionSec, startAtServerMs, cl.offsetMs, t),
           arm |-> {}]

setTrack(cl, url) == IF url # "" THEN [cl EXCEPT !.trackUrl = url] ELSE cl

\* onInit
onInit(cl, m, t) ==
  IF m.isPlaying /\ m.startAt # NoTime
  THEN LET elapsedSec == Max0(serverNowMs(cl, t) - m.startAt)
           currentAtNow == Max0(m.positionSec)
           baseAtStart == Max0(currentAtNow - elapsedSec)
       IN schedulePlay(setTrack(cl, m.trackUrl), baseAtStart, m.startAt, t)
  ELSE [client |-> [setCurrentTime(cancelDriftCorrection(setTrack(cl, m.trackUrl)),
                                   m.positionSec) EXCEPT
                      !.audioPaused = TRUE,
                      !.isPlaying = FALSE, !.positionBaseSec = m.positionSec,
                      !.plannedStartServerMs = NoTime],
        arm |-> {}]

\* onStateUpdate
onStateUpdate(cl, m) ==
  [client |-> [setCurrentTime(cancelDriftCorrection(setTrack(cl, m.trackUrl)),
                              m.positionSec) EXCEPT
                 !.audioPaused = TRUE,
                 !.positionBaseSec = m.positionSec, !.isPlaying = FALSE,
                 !.plannedStartServerMs = NoTime],
   arm |-> {}]

\* onPlay
onPlay(cl, m, t) == schedulePlay(setTrack(cl, m.trackUrl), m.positionSec, m.startAt, t)

\* onPause
onPause(cl, m) ==
  [client |-> [setCurrentTime(cancelDriftCorrection(cl), m.positionSec) EXCEPT
                 !.audioPaused = TRUE,
                 !.positionBaseSec = m.positionSec, !.isPlaying = FALSE,
                 !.plannedStartServerMs = NoTime],
   arm |-> {}]

\* onSeek: a null (or zero) startAtServerMs only repositions.
onSeek(cl, m, t) ==
  IF m.startAt # NoTime /\ m.startAt # 0
  THEN schedulePlay(cl, m.positionSec, m.startAt, t)
  ELSE [client |-> [setCurrentTime(cl, m.positionSec) EXCEPT
                      !.positionBaseSec = m.positionSec],
        arm |-> {}]

\* The handler App registered for the event of message m.
Handle(cl, m, t) ==
  CASE m.ev = "state:init" -> onInit(cl, m, t)
    [] m.ev = "state:update" -> onStateUpdate(cl, m)
    [] m.ev = "play" -> onPlay(cl, m, t)
    [] m.ev = "pause" -> onPause(cl, m)
    [] m.ev = "seek" -> onSeek(cl, m, t)

\* The client of socket c handles the oldest message on its wire.
Deliver(c) ==
  /\ wire[c] # <<>>
  /\ LET r == Handle(client[c], Head(wire[c]), now) IN
     /\ client' = [client EXCEPT ![c] = r.client]
     /\ timers' = [timers EXCEPT ![c] = @ \cup r.arm]
  /\ wire' = [wire EXCEPT ![c] = Tail(@)]
  /\ UNCHANGED <<serverVars, now, emitted, reply, issued>>

\* A start callback armed by schedulePlay runs; nothing ever clears it.
TimerFire(c) ==
  \E tm \in timers[c] :
    /\ tm.fireAt <= now
    /\ client' = [client EXCEPT
                    ![c] = start(@, tm.positionSec, tm.startAtServerMs, tm.offsetMs, now)]
    /\ timers' = [timers EXCEPT ![c] = @ \ {tm}]
    /\ UNCHANGED <<serverVars, now, emitted, reply, wire, issued>>

\* A tick of the drift loop of socket c is due and runs; the audio element
\* reports the position actualSec.
DriftTick(c, actualSec) ==
  /\ client[c].correction.active
  /\ client[c].correction.nextTickMs <= now
  /\ client' = [client EXCEPT ![c] = tick(@, actualSec, now)]
  /\ UNCHANGED <<serverVars, now, emitted, reply, wire, timers, issued>>

\* socket.io carries the playback messages of the last handler to their
\* recipients, in order.
Transport(cs) ==
  /\ wire' = [c \in Conns |->
                IF c \in cs
                THEN wire[c] \o SelectSeq(emitted',
                                  LAMBDA m : m.ev \in PlaybackEvents /\ c \in m.to)
                ELSE wire[c]]
  /\ \A c \in cs : Len(wire'[c]) <= MaxWire
  /\ UNCHANGED <<client, timers>>

\* ------------------------------------------------------------------------
\* Synchronization specification: one room, its owner and one other socket,
\* the timeline commands, the clock, message delivery and start timers.
\* Room ids do not collide here; a message is handled and a due timer fires
\* before the clock moves on by a step.
\* ------------------------------------------------------------------------

SyncConns == {"c1", "c2"}

SyncRoom == "R1"

SyncOwner == "c1"

SyncJoiner == "c2"

\* Connections, names and the room.
SyncSetup ==
  \/ \E c \in SyncConns : Connect(c)
  \/ \E c \in SyncConns : SetName(c, IF c = SyncOwner THEN "A" ELSE "B")
  \/ SyncRoom \notin DOMAIN rooms /\ RoomCreate(SyncOwner, SyncRoom)

\* The owner's timeline commands and the other socket's joins, at most
\* MaxCommands of them altogether.
SyncCommand ==
  /\ issued < MaxCommands
  /\ issued' = issued + 1
  /\ \/ ControlLoad(SyncOwner, SyncRoom, "t1")
     \/ ControlPlay(SyncOwner, SyncRoom)
     \/ ControlPause(SyncOwner, SyncRoom)
     \/ \E p \in SeekTargets : ControlSeek(SyncOwner, SyncRoom, p)
     \/ RoomJoin(SyncJoiner, SyncRoom)

NoTimerDue == \A c \in Conns : \A tm \in timers[c] : tm.fireAt > now

NothingInFlight == \A c \in Conns : wire[c] = <<>>

\* The clock is followed from the first load on.
SyncTick ==
  /\ SyncRoom \in DOMAIN playbackStates
  /\ NoTimerDue
  /\ NothingInFlight
  /\ Tick(Horizon(MaxSyncTicks))
  /\ UNCHANGED clientVars

NextSync ==
  \/ SyncSetup /\ Transport(SyncConns) /\ UNCHANGED issued
  \/ SyncCommand /\ Transport(SyncConns)
  \/ \E c \in SyncConns : Deliver(c)
  \/ \E c \in SyncConns : TimerFire(c)
  \/ SyncTick

SpecSync == Init /\ [][NextSync]_vars

\* ------------------------------------------------------------------------
\* Clock estimation (useTimeSync.ts) and its specification: sockets whose
\* clocks are off by a fixed amount ping the server; ping and pong each take
\* some time on the way.  Every delay here is a multiple of 500 ms, so rtt / 2
\* is a whole number of milliseconds.
\* ------------------------------------------------------------------------

\* Math.round(n / d) for d > 0: the nearest integer, a half going up.
RoundDiv(n, d) == (2 * n + d) \div (2 * d)

\* onPong handled when the client's Date.now() reads clientRecvMs.
onPong(cl, m, clientRecvMs) ==
  LET clientSendMs == m.startAt
      rtt == clientRecvMs - clientSendMs
      offset == m.serverNowMs - (clientSendMs + rtt \div 2)
  IN [cl EXCEPT
        !.rttMs = IF cl.rttMs = NoTime THEN rtt
                  ELSE RoundDiv(7 * cl.rttMs + 3 * rtt, 10),
        !.offsetMs = RoundDiv(7 * cl.offsetMs + 3 * offset, 10)]

TsConns == {"c1", "c2"}

\* Client clock minus server clock.
ClockSkews == {0, 1000, -500}

\* Time a ping spends on its way to the server.
UplinkDelays == {0, 500}

\* A socket connects; its clock is off by skew.
TsConnect(c, skew) ==
  /\ Connect(c)
  /\ client' = [client EXCEPT ![c].clockSkewMs = skew]
  /\ UNCHANGED <<wire, timers, issued>>

\* The server handles a ping that the client sent delay ms ago; the pong
\* sets off.
PingArrives(c, delay) ==
  /\ delay <= now
  /\ Len(wire[c]) < MaxWire
  /\ TimesyncPing(c, now - delay + client[c].clockSkewMs)
  /\ wire' = [wire EXCEPT ![c] = @ \o emitted']
  /\ issued' = issued + 1
  /\ UNCHANGED <<client, timers>>

\* A ping of the clock-estimation specification.
TsPing(c, delay) == issued < MaxPings /\ PingArrives(c, delay)

\* The pong arrives.
PongDeliver(c) ==
  /\ wire[c] # <<>>
  /\ Head(wire[c]).ev = "timesync:pong"
  /\ client' = [client EXCEPT
                  ![c] = onPong(@, Head(wire[c]), now + client[c].clockSkewMs)]
  /\ wire' = [wire EXCEPT ![c] = Tail(@)]
  /\ UNCHANGED <<serverVars, now, emitted, reply, timers, issued>>

NextTimeSync ==
  \/ \E c \in TsConns, skew \in ClockSkews : TsConnect(c, skew)
  \/ \E c \in TsConns, delay \in UplinkDelays : TsPing(c, delay)
  \/ \E c \in TsConns : PongDeliver(c)
  \/ Tick(Horizon(MaxPongTicks)) /\ UNCHANGED clientVars

SpecTimeSync == Init /\ [][NextTimeSync]_vars

\* ------------------------------------------------------------------------
\* Client specification: one socket whose clock is off by a fixed amount.  It
\* owns a room and sends timeline commands, estimates the server clock from
\* pongs, and handles the playback messages, which may spend time on the
\* way, and its start timers.
\* ------------------------------------------------------------------------

ClientConn == "c1"

ClientRoom == "R1"

ClientSetup ==
  \/ \E skew \in ClockSkews : TsConnect(ClientConn, skew)
  \/ /\ \/ currentUser[ClientConn] = Null /\ SetName(ClientConn, "A")
        \/ ClientRoom \notin DOMAIN rooms /\ RoomCreate(ClientConn, ClientRoom)
     /\ Transport({ClientConn})
     /\ UNCHANGED issued

\* The timeline commands and the pings, at most MaxClientSteps altogether.
ClientCommand ==
  /\ issued < MaxClientSteps
  /\ \/ /\ \/ ControlLoad(ClientConn, ClientRoom, "t1")
           \/ ControlPlay(ClientConn, ClientRoom)
           \/ ControlPause(ClientConn, ClientRoom)
           \/ \E p \in SeekTargets : ControlSeek(ClientConn, ClientRoom, p)
        /\ Transport({ClientConn})
        /\ issued' = issued + 1
     \/ \E delay \in UplinkDelays : PingArrives(ClientConn, delay)

\* The client handles the oldest message on its wire.
ClientDeliver ==
  \/ PongDeliver(ClientConn)
  \/ /\ wire[ClientConn] # <<>>
     /\ Head(wire[ClientConn]).ev \in PlaybackEvents
     /\ Deliver(ClientConn)

\* The clock is followed from the first load on; a due timer fires before
\* the clock moves on.
ClientTick ==
  /\ ClientRoom \in DOMAIN playbackStates
  /\ NoTimerDue
  /\ Tick(Horizon(MaxClientTicks))
  /\ UNCHANGED clientVars

NextClient ==
  \/ ClientSetup
  \/ ClientCommand
  \/ ClientDeliver
  \/ TimerFire(ClientConn)
  \/ \E actualSec \in AudioReadings : DriftTick(ClientConn, actualSec)
  \/ ClientTick

SpecClient == Init /\ [][NextClient]_vars

\* ------------------------------------------------------------------------
\* Queue specification: one room, its owner and one other socket, the queue
\* handlers and the clock.  Room ids do not collide here.
\* ------------------------------------------------------------------------

QueueConns == {"c1", "c2"}

QueueRoom == "R1"

\* Item ids not in use in the room's queue.
UnusedItemIds ==
  {id \in QueueItemIds : \A i \in 1..Len(getQueue(QueueRoom)) : getQueue(QueueRoom)[i].id # id}

\* The id generated for the next item: ids are opaque tokens, so one unused
\* id stands for all of them.
NextItemId == CHOOSE id \in UnusedItemIds : TRUE

QueueHandler ==
  \E c \in QueueConns :
    \/ Connect(c)
    \/ SetName(c, IF c = "c1" THEN "A" ELSE "B")
    \/ c = "c1" /\ QueueRoom \notin DOMAIN rooms /\ RoomCreate(c, QueueRoom)
    \/ c = "c2" /\ RoomJoin(c, QueueRoom)
    \/ \E url \in QueueUrls :
         UnusedItemIds # {} /\ QueueAdd(c, QueueRoom, url, NextItemId)
    \/ \E id \in QueueItemIds : QueueRemove(c, QueueRoom, id)
    \/ \E id \in QueueItemIds : QueuePlayNow(c, QueueRoom, id)
    \/ PlaybackEnded(c, QueueRoom)

NextQueue ==
  \/ QueueHandler /\ UNCHANGED clientVars
  \/ /\ \E d \in QueueTickSteps : Advance(d, MaxQueueTicks * d)
     /\ UNCHANGED clientVars

SpecQueue == Init /\ [][NextQueue]_vars

\* ------------------------------------------------------------------------
\* Role specification: three sockets, names shared or changed at will, one
\* room id, transfers and departures.  A pending fetchSockets() callback
\* runs before the next handler.
\* ------------------------------------------------------------------------

RoleRoom == "R1"

RoleHandler ==
  \E c \in Conns :
    \/ Connect(c)
    \/ \E n \in Names : SetName(c, n)
    \/ RoomCreate(c, RoleRoom)
    \/ RoomJoin(c, RoleRoom)
    \/ \E n \in Names : TransferOwner(c, RoleRoom, n)
    \/ Disconnect(c)

NextRoles ==
  \/ pendingRole = <<>> /\ RoleHandler /\ UNCHANGED clientVars
  \/ RoleNotify /\ UNCHANGED clientVars

SpecRoles == Init /\ [][NextRoles]_vars

\* ------------------------------------------------------------------------
\* Properties
\* ------------------------------------------------------------------------

Count(seq, x) == Cardinality({i \in 1..Len(seq) : seq[i] = x})

NoDuplicates(seq) == \A i, k \in 1..Len(seq) : i # k => seq[i] # seq[k]

\* The last handler emitted exactly one message, a control:denied to socket c.
DeniedOnlyTo(c) ==
  /\ Len(emitted') = 1
  /\ emitted'[1].ev = "control:denied"
  /\ emitted'[1].to = {c}

\* C1: every room of the registry has at least one member, and exactly one
\* entry of its participants list is its controller.
C1_ControllerInvariant ==
  \A rid \in DOMAIN rooms :
    /\ Len(rooms[rid].participants) >= 1
    /\ Count(rooms[rid].participants, rooms[rid].ownerId) = 1

\* C1 witness: a controller has just disconnected from a room that lives on
\* under another member.
C1_Witness ==
  /\ \E c \in Conns : status[c] = "closed"
  /\ Len(emitted) = 1
  /\ emitted[1].ev = "room:ownerChanged"
  /\ \E rid \in DOMAIN rooms : rooms[rid].ownerId = emitted[1].ownerName

\* C5: no identity appears twice in a participants list, and a room:join by
\* an identity already listed leaves the list as it was.
C5_JoinIdempotent ==
  /\ [](\A rid \in DOMAIN rooms : NoDuplicates(rooms[rid].participants))
  /\ [][\A c \in Conns, rid \in RoomIds :
          (/\ rid \in DOMAIN rooms
           /\ currentUser[c] # Null
           /\ InSeq(rooms[rid].participants, currentUser[c])
           /\ RoomJoin(c, rid))
          => rooms'[rid].participants = rooms[rid].participants]_vars

\* C5 witness: two sockets with the same name are both in a room of two
\* members, the last handler being a join of that room.
C5_Witness ==
  \E c, d \in Conns, rid \in DOMAIN rooms :
    /\ c # d
    /\ currentUser[c] # Null
    /\ currentUser[c] = currentUser[d]
    /\ currentRoom[c] = rid /\ currentRoom[d] = rid
    /\ Len(rooms[rid].participants) = 2
    /\ Count(rooms[rid].participants, currentUser[c]) = 1
    /\ reply = Ok
    /\ Len(emitted) >= 2
    /\ emitted[Len(emitted)].ev = "room:state"
    /\ emitted[Len(emitted)].participants = rooms[rid].participants

\* What a refused room:join leaves alone.
JoinChangesNothing ==
  /\ emitted' = <<>>
  /\ UNCHANGED <<status, currentUser, currentRoom, joined, rooms, playbackStates,
                 queues>>

\* C10 as stated: a room:join naming a room id that is not in the registry
\* replies 'Room not found' and changes nothing.
C10_JoinUnknownRoom ==
  [][\A c \in Conns, rid \in RoomIds :
       (rid \notin DOMAIN rooms /\ RoomJoin(c, rid))
       => (reply' = Fail("Room not found") /\ JoinChangesNothing)]_vars

\* C10 amended: such a join changes nothing and fails; the reply is
\* 'Room not found' when the caller has a display name and
\* 'Not authenticated' when it has none.
C10_JoinUnknownRoomNamed ==
  [][\A c \in Conns, rid \in RoomIds :
       (rid \notin DOMAIN rooms /\ RoomJoin(c, rid))
       => /\ JoinChangesNothing
          /\ reply' = IF currentUser[c] # Null THEN Fail("Room not found")
                      ELSE Fail("Not authenticated")]_vars

\* C10 witness: a named socket that is in one room has just been refused a
\* join of a room id that is not in the registry.
C10_Witness ==
  /\ reply = Fail("Room not found")
  /\ \E c \in Conns, rid \in RoomIds :
       /\ currentUser[c] # Null
       /\ currentRoom[c] \in DOMAIN rooms
       /\ rid \notin DOMAIN rooms

\* The socket c controls room rid: it carries the controller's name and has
\* joined the room.
Controls(c, rid) ==
  /\ rid \in DOMAIN rooms
  /\ status[c] = "open"
  /\ rid \in joined[c]
  /\ currentUser[c] = rooms[rid].ownerId

\* C4: when the controller of a room disconnects, the first remaining member
\* becomes controller and the departed identity is no longer a member, or, if
\* no member remains, the room is removed; while a room id is not in the
\* registry a join of it by a named caller fails with 'Room not found'.
C4_DepartureReassignment ==
  /\ [][\A c \in Conns, rid \in RoomIds :
          (Controls(c, rid) /\ Disconnect(c))
          => LET rest == RemoveAll(rooms[rid].participants, currentUser[c]) IN
             IF Len(rest) > 0
             THEN /\ rid \in DOMAIN rooms'
                  /\ rooms'[rid].ownerId = rest[1]
                  /\ ~InSeq(rooms'[rid].participants, currentUser[c])
             ELSE rid \notin DOMAIN rooms']_vars
  /\ [][\A c \in Conns, rid \in RoomIds :
          (rid \notin DOMAIN rooms /\ currentUser[c] # Null /\ RoomJoin(c, rid))
          => reply' = Fail("Room not found")]_vars

\* A load, play, pause or seek for room rid sent by socket c, the load
\* carrying one of the given track locators.
ControlCommand(c, rid, urls) ==
  \/ \E url \in urls : ControlLoad(c, rid, url)
  \/ ControlPlay(c, rid)
  \/ ControlPause(c, rid)
  \/ \E p \in SeekTargets : ControlSeek(c, rid, p)

\* The room is exactly as before and the only message is a denial to c.
DeniedAndUntouched(c) ==
  /\ DeniedOnlyTo(c)
  /\ UNCHANGED <<rooms, playbackStates, queues>>

Applied(c, rid) ==
  /\ rid \in DOMAIN playbackStates'
  /\ \/ \E url \in Tracks :
          /\ ControlLoad(c, rid, url)
          /\ playbackStates'[rid] = [isPlaying |-> FALSE, positionSec |-> 0,
                                     trackUrl |-> url, startTime |-> now]
     \/ /\ ControlPlay(c, rid)
        /\ playbackStates'[rid].isPlaying
        /\ playbackStates'[rid].startTime = now + 1500
     \/ /\ ControlPause(c, rid)
        /\ ~playbackStates'[rid].isPlaying
     \/ \E p \in SeekTargets :
          /\ ControlSeek(c, rid, p)
          /\ playbackStates'[rid].positionSec = p

\* A successful transfer in room rid by socket c to the identity target.
Transferred(c, rid, target) ==
  /\ reply' = Ok
  /\ status[c] = "open"
  /\ rid \in DOMAIN rooms
  /\ emitted' # <<>>
  /\ emitted'[1].ev = "room:ownerChanged"
  /\ \E raw \in RawNames : Trim(raw) = target /\ TransferOwner(c, rid, raw)

\* The controller of rid is not the first member: control was transferred,
\* and no later transfer or departure has given it back (room:create and
\* disconnect both make the first member the controller).
HeldByTransfer(rid) ==
  /\ rid \in DOMAIN rooms
  /\ rooms[rid].ownerId # rooms[rid].participants[1]

\* C3 as stated: a successful transfer from A to B makes B the controller at
\* once, and from then on, while B holds control by that transfer, every load,
\* play, pause or seek from another identity is denied and every one from B
\* is applied.
C3_TransferTakesEffect ==
  /\ [][\A c \in Conns, rid \in RoomIds, target \in Names :
          Transferred(c, rid, target)
          => (rooms'[rid].ownerId = target /\ target # currentUser[c])]_vars
  /\ [][\A c \in Conns, rid \in RoomIds :
          (HeldByTransfer(rid) /\ ControlCommand(c, rid, Tracks \cup {""}))
          => IF rooms[rid].ownerId = currentUser[c]
             THEN Applied(c, rid)
             ELSE DeniedAndUntouched(c)]_vars

\* C3 amended: the same, where a command counts if it is well formed (a load
\* carries a non-empty trackUrl) and a play, pause or seek from B is applied
\* when the room has a loaded track (without one it is dropped, not denied).
C3_TransferTakesEffectWellFormed ==
  /\ [][\A c \in Conns, rid \in RoomIds, target \in Names :
          Transferred(c, rid, target)
          => (rooms'[rid].ownerId = target /\ target # currentUser[c])]_vars
  /\ [][\A c \in Conns, rid \in RoomIds :
          (HeldByTransfer(rid) /\ ControlCommand(c, rid, Tracks))
          => IF rooms[rid].ownerId = currentUser[c]
             THEN IF rid \in DOMAIN playbackStates'
                  THEN Applied(c, rid)
                  ELSE (emitted' = <<>> /\ UNCHANGED <<rooms, playbackStates, queues>>)
             ELSE DeniedAndUntouched(c)]_vars

\* C3 witness: in a room created by A that B joined, B is the controller
\* while A is still a member and connected (so control was transferred),
\* and B's pause has just been applied.
C3_Witness ==
  \E rid \in DOMAIN rooms :
    /\ rooms[rid].participants = <<"A", "B">>
    /\ rooms[rid].ownerId = "B"
    /\ \E c \in Conns : currentUser[c] = "A" /\ currentRoom[c] = rid
    /\ rid \in DOMAIN playbackStates
    /\ Len(emitted) = 2
    /\ emitted[1].ev = "pause"

\* C8: a timeline without a track is not running.
C8_NoTrackNotRunning ==
  \A rid \in DOMAIN playbackStates :
    playbackStates[rid].isPlaying => playbackStates[rid].trackUrl # ""

\* C8 witness: a room is running the track taken from its queue; a room with
\* no timeline exists too or the last handler ignored a command.
C8_Witness ==
  \E rid \in DOMAIN playbackStates :
    /\ playbackStates[rid].isPlaying
    /\ playbackStates[rid].trackUrl # ""
    /\ Len(emitted) = 4
    /\ emitted[2].ev = "queue:update"

\* C9: whenever a handler stores a start instant in a timeline, the value is
\* the server clock at that handler plus 0, 1000 or 1500 ms.
C9_EpochIsServerClock ==
  [][\A rid \in DOMAIN playbackStates' :
       (\/ rid \notin DOMAIN playbackStates
        \/ playbackStates'[rid].startTime # playbackStates[rid].startTime)
       => playbackStates'[rid].startTime \in {now, now + 1000, now + 1500}]_vars

\* C9 witness: a seek of a running timeline has just re-armed it, at a clock
\* reading at which the seek target differs from every permitted value.
C9_Witness ==
  \E rid \in DOMAIN playbackStates :
    /\ playbackStates[rid].isPlaying
    /\ playbackStates[rid].startTime = now + 1000
    /\ playbackStates[rid].positionSec \notin {now, now + 1000, now + 1500}
    /\ Len(emitted) = 2
    /\ emitted[1].ev = "seek"

MaxOf(a, b) == IF a >= b THEN a ELSE b

\* The position the timeline described by message m has at the instant the
\* client handling m at `now` starts: a state:init carries the position at
\* serverNowMs, a play the position at its start instant.
TimelineAtStart(m) ==
  LET startInstant == MaxOf(now, m.startAt)
  IN IF m.ev = "state:init"
     THEN m.positionSec + (startInstant - m.serverNowMs)
     ELSE m.positionSec + (startInstant - m.startAt)

\* C6: when a socket that joined a running room handles the state:init
\* snapshot or a play event, the position it is set to start at is not
\* behind the position the server timeline has at that start instant.
C6_JoinerNotBehind ==
  [][\A c \in Conns :
       (/\ Deliver(c)
        /\ \/ Head(wire[c]).ev = "state:init" /\ Head(wire[c]).isPlaying
           \/ Head(wire[c]).ev = "play")
       => client'[c].currentTime >= TimelineAtStart(Head(wire[c]))]_vars

\* Every broadcast has been handled, every due start callback has run, and
\* the start instant of a running timeline has been reached.
Quiescent ==
  /\ NothingInFlight
  /\ NoTimerDue
  /\ SyncRoom \in DOMAIN playbackStates
  /\ playbackStates[SyncRoom].isPlaying => now >= playbackStates[SyncRoom].startTime

\* A connected socket whose current room is rid.
Member(c, rid) == status[c] = "open" /\ currentRoom[c] = rid /\ rid \in joined[c]

\* The client's (positionBaseSec, plannedStartServerMs, isPlaying) gives the
\* position of the timeline st at every instant from its start instant on.
Agree(cl, st) ==
  /\ cl.isPlaying = st.isPlaying
  /\ IF st.isPlaying
     THEN cl.positionBaseSec - cl.plannedStartServerMs = st.positionSec - st.startTime
     ELSE cl.positionBaseSec = st.positionSec

\* C7: once all broadcasts have been delivered, every member's triple agrees
\* with the server timeline (and so with every other member's) from the last
\* start instant on.
C7_MembersAgree ==
  Quiescent => \A c \in Conns :
                 Member(c, SyncRoom) => Agree(client[c], playbackStates[SyncRoom])

\* C11: a room:transferOwner changes the controller (to the target) exactly
\* when the caller is the controller, the target is a member and the target
\* is not the caller; otherwise the reply is a failure and the controller,
\* the membership and the timelines are as before.
C11_TransferPreconditions ==
  [][\A c \in Conns, rid \in RoomIds, raw \in RawNames :
       TransferOwner(c, rid, raw)
       => IF /\ rid \in DOMAIN rooms
             /\ rooms[rid].ownerId = currentUser[c]
             /\ InSeq(rooms[rid].participants, Trim(raw))
             /\ Trim(raw) # currentUser[c]
          THEN /\ rooms'[rid].ownerId = Trim(raw)
               /\ rooms'[rid].ownerId # rooms[rid].ownerId
               /\ rooms'[rid].participants = rooms[rid].participants
               /\ reply' = Ok
               /\ UNCHANGED playbackStates
          ELSE /\ reply'.kind = "fail"
               /\ UNCHANGED <<rooms, playbackStates>>]_vars

\* C11 witness: in a room whose control was transferred before, the new
\* controller has just been refused a transfer to an identity that is not a
\* member.
C11_Witness ==
  /\ reply = Fail("Target user is not in the room")
  /\ emitted = <<>>
  /\ \E rid \in DOMAIN rooms :
       /\ Len(rooms[rid].participants) = 2
       /\ rooms[rid].ownerId = rooms[rid].participants[2]

\* C12: a room:create by a socket without a display name fails and changes
\* nothing; a room:create that succeeds stores a room whose participants list
\* is exactly the caller and whose controller is the caller.
C12_CreateRoom ==
  [][\A c \in Conns, rid \in RoomIds :
       RoomCreate(c, rid)
       => IF currentUser[c] = Null
          THEN /\ reply'.kind = "fail"
               /\ emitted' = <<>>
               /\ UNCHANGED serverVars
          ELSE /\ reply' = Ok
               /\ rooms'[rid].participants = <<currentUser[c]>>
               /\ rooms'[rid].ownerId = currentUser[c]
               /\ currentRoom'[c] = rid]_vars

\* C12 witness: with another room in the registry, a named socket has just
\* created a room and got its room:info and room:state.
C12_Witness ==
  /\ reply = Ok
  /\ Len(emitted) = 2
  /\ emitted[1].ev = "room:info"
  /\ Cardinality(DOMAIN rooms) = 2
  /\ \E c \in Conns :
       /\ currentRoom[c] \in DOMAIN rooms
       /\ emitted[1].to = {c}
       /\ emitted[1].participants = <<currentUser[c]>>
       /\ rooms[currentRoom[c]] = [ownerId |-> currentUser[c],
                                   participants |-> <<currentUser[c]>>]

\* C13: a room:create whose generated id is the id of a room already in the
\* registry leaves that room's controller, membership, timeline and queue as
\* they were (the new room gets another id).
C13_CreateNeverReplaces ==
  [][\A c \in Conns, rid \in RoomIds :
       (rid \in DOMAIN rooms /\ RoomCreate(c, rid))
       => /\ rooms'[rid] = rooms[rid]
          /\ UNCHANGED <<playbackStates, queues>>]_vars

C15_OneArmedStart ==
  \A c \in Conns : Cardinality(timers[c]) <= 1

\* The last playback broadcast the client of c handled left it stopped: a
\* pause, a state:update or a snapshot of a stopped timeline, with no play
\* or running seek handled since.
Superseded(c) == client[c].plannedStartServerMs = NoTime

\* C16: while the last broadcast a client handled left it stopped, nothing
\* but the handling of a further broadcast makes it render, sets isPlaying
\* or starts a drift loop.
C16_StaleStartHasNoEffect ==
  [][\A c \in Conns :
       (Superseded(c) /\ wire'[c] = wire[c])
       => /\ client'[c].isPlaying = client[c].isPlaying
          /\ client'[c].audioPaused = client[c].audioPaused
          /\ client'[c].correction = client[c].correction]_vars

\* The sample onPong computes from the pong at the head of c's wire.
PongRtt(c) == now + client[c].clockSkewMs - Head(wire[c]).startAt

PongOffset(c) == Head(wire[c]).serverNowMs - (Head(wire[c]).startAt + PongRtt(c) \div 2)

\* C17: the first pong a client handles seeds its estimate with the sample
\* itself: offsetMs is the sample's offset and rttMs its round trip time.
C17_FirstPongSeeds ==
  [][\A c \in Conns :
       (PongDeliver(c) /\ client[c].rttMs = NoTime)
       => /\ client'[c].rttMs = PongRtt(c)
          /\ client'[c].offsetMs = PongOffset(c)]_vars

\* Socket c is the controller of rid and rid has a loaded track.
ControllerWithTrack(c, rid) ==
  /\ rid \in DOMAIN rooms
  /\ rooms[rid].ownerId = currentUser[c]
  /\ rid \in DOMAIN playbackStates

\* C18: a control:play by the controller on a room with a loaded track sets
\* isPlaying, sets startTime to the server clock plus 1500 ms, leaves
\* positionSec and trackUrl alone and broadcasts to the room a play event
\* carrying that positionSec and that startTime.
C18_PlayEffect ==
  [][\A c \in Conns, rid \in RoomIds :
       (ControllerWithTrack(c, rid) /\ ControlPlay(c, rid))
       => /\ playbackStates'[rid].isPlaying
          /\ playbackStates'[rid].startTime = now + 1500
          /\ playbackStates'[rid].positionSec = playbackStates[rid].positionSec
          /\ playbackStates'[rid].trackUrl = playbackStates[rid].trackUrl
          /\ emitted'[1].ev = "play"
          /\ emitted'[1].to = SocketsIn(status, joined, rid)
          /\ emitted'[1].positionSec = playbackStates[rid].positionSec
          /\ emitted'[1].startAt = now + 1500
          /\ emitted'[1].trackUrl = playbackStates[rid].trackUrl]_vars

\* C18 witness: a play has just been broadcast to two sockets, at a position
\* other than 0 and with the server clock past 1500.
C18_Witness ==
  /\ Len(emitted) = 2
  /\ emitted[1].ev = "play"
  /\ Cardinality(emitted[1].to) = 2
  /\ emitted[1].positionSec # 0
  /\ now > 1500
  /\ emitted[1].startAt = now + 1500

\* C19: a control:pause by the controller stores the position of the running
\* formula at the server clock (positionSec + (now - startTime) if running,
\* positionSec if not), clears isPlaying and broadcasts a pause with that
\* position; on a paused timeline positionSec stays as it is.
C19_PauseEffect ==
  [][\A c \in Conns, rid \in RoomIds :
       (ControllerWithTrack(c, rid) /\ ControlPause(c, rid))
       => LET old == playbackStates[rid]
              position == IF old.isPlaying
                          THEN old.positionSec + (now - old.startTime)
                          ELSE old.positionSec
          IN /\ playbackStates'[rid] = [old EXCEPT !.isPlaying = FALSE,
                                                   !.positionSec = position]
             /\ emitted'[1].ev = "pause"
             /\ emitted'[1].to = SocketsIn(status, joined, rid)
             /\ emitted'[1].positionSec = position
             /\ (~old.isPlaying => playbackStates'[rid].positionSec = old.positionSec)]_vars

\* C19 witness: a pause has just stored a position that lies past the seek
\* target, the timeline having run for a while after its start instant.
C19_Witness ==
  /\ Len(emitted) = 2
  /\ emitted[1].ev = "pause"
  /\ \E rid \in DOMAIN playbackStates :
       /\ ~playbackStates[rid].isPlaying
       /\ playbackStates[rid].positionSec = emitted[1].positionSec
       /\ \E p \in SeekTargets : playbackStates[rid].positionSec > p

\* C20: a control:seek by the controller stores the requested position; on
\* a running timeline it sets startTime to the server clock plus 1000 ms and
\* broadcasts that instant; on a stopped one startTime and isPlaying stay and
\* the broadcast carries a null start instant.
C20_SeekEffect ==
  [][\A c \in Conns, rid \in RoomIds, p \in SeekTargets :
       (ControllerWithTrack(c, rid) /\ ControlSeek(c, rid, p))
       => LET old == playbackStates[rid] IN
          /\ playbackStates'[rid].positionSec = p
          /\ playbackStates'[rid].isPlaying = old.isPlaying
          /\ playbackStates'[rid].trackUrl = old.trackUrl
          /\ emitted'[1].ev = "seek"
          /\ emitted'[1].to = SocketsIn(status, joined, rid)
          /\ emitted'[1].positionSec = p
          /\ IF old.isPlaying
             THEN /\ playbackStates'[rid].startTime = now + 1000
                  /\ emitted'[1].startAt = now + 1000
             ELSE /\ playbackStates'[rid].startTime = old.startTime
                  /\ emitted'[1].startAt = NoTime]_vars

\* C20 witness: a seek of a stopped timeline has just been broadcast with a
\* null start instant, the stored start instant being an earlier one.
C20_Witness ==
  /\ Len(emitted) = 2
  /\ emitted[1].ev = "seek"
  /\ emitted[1].startAt = NoTime
  /\ \E rid \in DOMAIN playbackStates :
       /\ ~playbackStates[rid].isPlaying
       /\ playbackStates[rid].positionSec = emitted[1].positionSec
       /\ playbackStates[rid].startTime > 0
       /\ playbackStates[rid].startTime < now

\* C21: a control:load of a track by the controller, whatever the timeline
\* was before (absent, paused or running), stores that track with
\* positionSec 0, isPlaying false and startTime the server clock, and
\* broadcasts to the room one state:update with isPlaying false and
\* positionSec 0.
C21_LoadEffect ==
  [][\A c \in Conns, rid \in RoomIds, url \in Tracks :
       (/\ status[c] = "open"
        /\ rid \in DOMAIN rooms
        /\ rooms[rid].ownerId = currentUser[c]
        /\ ControlLoad(c, rid, url))
       => /\ rid \in DOMAIN playbackStates'
          /\ playbackStates'[rid].trackUrl = url
          /\ playbackStates'[rid].positionSec = 0
          /\ playbackStates'[rid].isPlaying = FALSE
          /\ playbackStates'[rid].startTime = now
          /\ Len(emitted') = 1
          /\ emitted'[1].ev = "state:update"
          /\ emitted'[1].to = SocketsIn(status, joined, rid)
          /\ emitted'[1].trackUrl = url
          /\ emitted'[1].isPlaying = FALSE
          /\ emitted'[1].positionSec = 0]_vars

\* C21 witness: a load has just been broadcast to two sockets at a server
\* clock past 0, while a client of the room, which has not handled it yet,
\* is still playing the timeline that ran before.
C21_Witness ==
  /\ Len(emitted) = 1
  /\ emitted[1].ev = "state:update"
  /\ Cardinality(emitted[1].to) = 2
  /\ now > 0
  /\ \E rid \in DOMAIN playbackStates :
       /\ playbackStates[rid] = LoadedState(emitted[1].trackUrl)
       /\ \E c \in emitted[1].to :
            /\ wire[c] = emitted
            /\ client[c].isPlaying
            /\ ~client[c].audioPaused

\* C22: a playback:ended from the controller of a room whose queue is not
\* empty removes the front item and leaves the others in their order, and
\* stores the timeline that a load of that item followed by a play would:
\* its url, positionSec 0, isPlaying true, startTime the server clock plus
\* 1500 ms.  With an empty queue, or from a socket that is not the
\* controller, the queue and the timeline stay as they are.
C22_EndedAdvances ==
  [][\A c \in Conns, rid \in RoomIds :
       (status[c] = "open" /\ PlaybackEnded(c, rid))
       => IF /\ rid \in DOMAIN rooms
             /\ rooms[rid].ownerId = currentUser[c]
             /\ queues[rid] # <<>>
          THEN /\ queues' = [queues EXCEPT ![rid] = Tail(queues[rid])]
               /\ playbackStates' =
                    MapPut(playbackStates, rid,
                           [isPlaying |-> TRUE, positionSec |-> 0,
                            trackUrl |-> Head(queues[rid]).url,
                            startTime |-> now + 1500])
          ELSE UNCHANGED <<queues, playbackStates>>]_vars

\* C22 witness: the front item of a queue of three has just been taken and
\* scheduled at a server clock past 0; the two items left are the former
\* second and third, the next one having the url now playing and the last
\* one another url.
C22_Witness ==
  /\ Len(emitted) = 4
  /\ emitted[1].ev = "state:update"
  /\ emitted[2].ev = "queue:update"
  /\ emitted[3].ev = "play"
  /\ reply = NoReply
  /\ \E rid \in DOMAIN playbackStates :
       /\ Len(queues[rid]) = 2
       /\ queues[rid] = emitted[2].items
       /\ queues[rid][1].url = emitted[1].trackUrl
       /\ queues[rid][2].url # emitted[1].trackUrl
       /\ playbackStates[rid].isPlaying
       /\ playbackStates[rid].trackUrl = emitted[1].trackUrl
       /\ playbackStates[rid].startTime = now + 1500
       /\ now > 0

\* The handler ran to its end without a trace: no variable of the server
\* changed, nothing was emitted to any socket and no acknowledgement given.
NoTrace ==
  /\ UNCHANGED serverVars
  /\ emitted' = <<>>
  /\ reply' = NoReply

\* C23: a load, play, pause or seek that names a room absent from the
\* registry, and a play, pause or seek by the controller of a room that has
\* no timeline, change nothing on the server and send nothing to anyone:
\* no broadcast, no reply and no denial.
C23_SilentlyIgnored ==
  [][\A c \in Conns, rid \in RoomIds :
       \/ NoTrace
       \/ status[c] # "open"
       \/ /\ rid \in DOMAIN rooms
          /\ \/ rooms[rid].ownerId # currentUser[c]
             \/ rid \in DOMAIN playbackStates
       \/ ~ \/ rid \notin DOMAIN rooms /\ ControlCommand(c, rid, Tracks \cup {""})
            \/ ControlPlay(c, rid)
            \/ ControlPause(c, rid)
            \/ \E p \in SeekTargets : ControlSeek(c, rid, p)]_vars

\* C23 witness: nothing was emitted or replied by the last handler, while a
\* room exists whose controller is connected and joined and which has no
\* timeline, and another connected socket names a room that does not exist.
C23_Witness ==
  /\ emitted = <<>>
  /\ reply = NoReply
  /\ \E c \in Conns, rid \in DOMAIN rooms :
       /\ Controls(c, rid)
       /\ rid \notin DOMAIN playbackStates
       /\ \E d \in Conns \ {c} : status[d] = "open" /\ currentUser[d] # Null

\* C24: a timeline exists only for an existing room: every key of
\* playbackStates is a key of rooms in every reachable state, hence also in
\* the state right after a room has been removed.
C24_TimelineHasRoom == DOMAIN playbackStates \subseteq DOMAIN rooms

\* C24 witness: the last socket of a room has just disconnected: no room and
\* no timeline is left, while the queue of the removed room still holds an
\* item its controller had added.
C24_Witness ==
  /\ DOMAIN rooms = {}
  /\ DOMAIN playbackStates = {}
  /\ emitted = <<>>
  /\ \E c \in Conns : status[c] = "closed"
  /\ \E rid \in RoomIds : queues[rid] # <<>>

\* The handler that just ran sent socket s a role notice stating role.
RoleNoticed(s, role) ==
  \E i \in 1..Len(emitted') :
    /\ emitted'[i].ev = "role:update"
    /\ emitted'[i].to = {s}
    /\ emitted'[i].role = role

\* A successful transfer tells every socket of the room who the new
\* controller is.
OwnerChangeBroadcast ==
  \A c \in Conns, n \in Names :
    Transferred(c, RoleRoom, n)
    => /\ rooms'[RoleRoom].ownerId = n
       /\ emitted'[1].to = SocketsIn(status, joined, RoleRoom)
       /\ emitted'[1].ownerName = n

\* The sockets of room rid bear the names of its participants list, each
\* name once.
OneSocketPerMember(rid) ==
  LET sockets == SocketsIn(status, joined, rid) IN
  /\ \A s, t \in sockets : s # t => currentUser[s] # currentUser[t]
  /\ \A s \in sockets : InSeq(rooms[rid].participants, currentUser[s])
  /\ Cardinality(sockets) = Len(rooms[rid].participants)

\* C25 as stated: after a successful room:transferOwner every socket of the
\* room is told the new controller, and every socket of the room is sent a
\* role notice of its own that states its role: owner if it bears the
\* controller's name, member otherwise.  Stated for rooms whose members
\* have one socket and one name each.
C25_EveryMemberNoticed ==
  [][/\ OwnerChangeBroadcast
     /\ (RoleNotify /\ OneSocketPerMember(Head(pendingRole).roomId))
        => LET rid == Head(pendingRole).roomId IN
           \A s \in SocketsIn(status, joined, rid) :
             RoleNoticed(s, IF currentUser[s] = rooms[rid].ownerId
                            THEN "owner" ELSE "member")]_vars

\* C25 amended: after a successful room:transferOwner every socket of the
\* room is told the new controller, and role notices go to two sockets of
\* the room at most: one bearing the previous controller's name is told
\* member and one bearing the new controller's name is told owner, whenever
\* the room has such a socket; each notice names the new controller and
\* states the role its recipient has.
C25_BothSidesNoticed ==
  [][/\ OwnerChangeBroadcast
     /\ RoleNotify
        => LET p == Head(pendingRole)
               sockets == SocketsIn(status, joined, p.roomId)
               owner == rooms[p.roomId].ownerId
               named(n) == {s \in sockets : currentUser[s] = n}
               toldAs(role) == {s \in Conns : RoleNoticed(s, role)}
           IN /\ owner = p.to
              /\ Len(emitted') <= 2
              /\ \A i \in 1..Len(emitted') :
                   /\ emitted'[i].ev = "role:update"
                   /\ emitted'[i].ownerName = owner
              /\ toldAs("owner") \subseteq named(owner)
              /\ toldAs("member") \subseteq named(currentUser[p.conn])
              /\ named(owner) # {} => Cardinality(toldAs("owner")) = 1
              /\ named(currentUser[p.conn]) # {} => Cardinality(toldAs("member")) = 1
              /\ \A s \in toldAs("member") : currentUser[s] # owner]_vars

\* C25 witness: the role notices of a transfer in a room of three sockets
\* with three names have just been sent: one socket was told member, one
\* owner, and the third got none.
C25_Witness ==
  /\ Len(emitted) = 2
  /\ emitted[1].ev = "role:update" /\ emitted[1].role = "member"
  /\ emitted[2].ev = "role:update" /\ emitted[2].role = "owner"
  /\ emitted[1].to # emitted[2].to
  /\ RoleRoom \in DOMAIN rooms
  /\ \A c \in Conns : status[c] = "open" /\ RoleRoom \in joined[c]
  /\ \A c, d \in Conns : c # d => currentUser[c] # currentUser[d]
  /\ \A s \in emitted[2].to : currentUser[s] = rooms[RoleRoom].ownerId

\* The timers of socket c that fire in this step.
Fired(c) == timers[c] \ timers'[c]

\* C26: a client that handles a play whose local deadline,
\* startAtServerMs - offsetMs on its own clock, has passed starts at once at
\* positionSec plus the time elapsed since that deadline.  When the deadline
\* is more than 30 ms ahead it stays paused at exactly positionSec and arms
\* a start for the deadline; the start fires no earlier, and finds the audio
\* at positionSec while that play is still the client's planned start.
C26_StartAtDeadline ==
  [][\A c \in Conns :
       /\ (/\ wire[c] # <<>>
           /\ Head(wire[c]).ev = "play"
           /\ wire'[c] = Tail(wire[c]))
          => LET m == Head(wire[c])
                 localNow == now + client[c].clockSkewMs
                 deadline == m.startAt - client[c].offsetMs
             IN /\ deadline <= localNow
                   => /\ ~client'[c].audioPaused
                      /\ client'[c].currentTime = m.positionSec + (localNow - deadline)
                      /\ timers'[c] = timers[c]
                /\ deadline - localNow > 30
                   => /\ client'[c].audioPaused
                      /\ client'[c].currentTime = m.positionSec
                      /\ \E tm \in timers'[c] :
                           /\ tm.positionSec = m.positionSec
                           /\ tm.startAtServerMs = m.startAt
                           /\ tm.fireAt + client[c].clockSkewMs = deadline
       /\ \A tm \in Fired(c) :
            /\ tm.fireAt <= now
            /\ (/\ client[c].audioPaused
                /\ client[c].plannedStartServerMs = tm.startAtServerMs
                /\ client[c].positionBaseSec = tm.positionSec)
               => /\ ~client'[c].audioPaused
                  /\ client'[c].currentTime = tm.positionSec]_vars

\* C26 witness: a client whose clock is off and whose offset estimate is not
\* 0 has handled a play after its local deadline and renders ahead of the
\* broadcast position by the time elapsed since; no start is armed.
C26_Witness ==
  \E c \in Conns :
    /\ client[c].clockSkewMs # 0
    /\ client[c].offsetMs # 0
    /\ ~client[c].audioPaused
    /\ client[c].isPlaying
    /\ timers[c] = {}
    /\ client[c].plannedStartServerMs # NoTime
    /\ client[c].currentTime > client[c].positionBaseSec
    /\ client[c].currentTime - client[c].positionBaseSec
         = now + client[c].clockSkewMs + client[c].offsetMs
           - client[c].plannedStartServerMs

\* The client of c handles, in this step, a message of one of the events evs.
Handles(c, evs) ==
  /\ wire[c] # <<>>
  /\ Head(wire[c]).ev \in evs
  /\ wire'[c] = Tail(wire[c])
  /\ client'[c] # client[c] \/ timers'[c] # timers[c] \/ emitted' = emitted

\* C27: a client never has more than one drift loop; when it has handled a
\* pause or a state:update no loop is active and playbackRate is 1; and
\* whenever it handles a pause, a state:update, a play or a seek, no loop is
\* active and playbackRate is 1 at the moment the handler sets the playback
\* position.
C27_LoopCancelledBeforeReposition ==
  [][\A c \in Conns :
       /\ client'[c].intervals <= 1
       /\ Handles(c, {"pause", "state:update"})
          => /\ ~client'[c].correction.active
             /\ client'[c].playbackRate = RateOne
       /\ Handles(c, {"pause", "state:update", "play", "seek"})
          => client'[c].atSet = [loop |-> FALSE, playbackRate |-> RateOne]]_vars

\* A tick of the drift loop of socket c runs in this step.
Ticks(c) ==
  /\ client[c].correction.active
  /\ client'[c].correction.nextTickMs = client[c].correction.nextTickMs + 1000
  /\ wire' = wire
  /\ timers' = timers

\* C28: every tick of the drift loop sets playbackRate to
\* 1 + clamp(0.5 * (expected - actual), -0.02, 0.02), where expected is the
\* loop's basePositionSec plus the time from its startAtServerMs to the
\* client's estimate of the server clock, if positive; playbackRate is
\* within [0.98, 1.02] on every client at all times.  Rates are in 1/2000ths,
\* times in milliseconds.
C28_RateClamped ==
  [][\A c \in Conns :
       /\ client'[c].playbackRate >= RateOne - 40
       /\ client'[c].playbackRate <= RateOne + 40
       /\ Ticks(c)
          => LET cr == client[c].correction
                 serverNow == now + client[c].clockSkewMs + cr.offsetMs
                 elapsed == IF serverNow > cr.startAtServerMs
                            THEN serverNow - cr.startAtServerMs ELSE 0
                 expected == cr.basePositionSec + elapsed
             IN \E actual \in AudioReadings :
                  LET half == expected - actual IN
                  client'[c].playbackRate =
                    RateOne + (IF half < -40 THEN -40 ELSE IF half > 40 THEN 40 ELSE half)]_vars

\* C28 witness: a drift loop has ticked and left a rate that is neither 1
\* nor one of the two limits, on a client whose clock is off.
C28_Witness ==
  \E c \in Conns :
    /\ client[c].correction.active
    /\ client[c].correction.nextTickMs > now
    /\ client[c].clockSkewMs # 0
    /\ client[c].playbackRate # RateOne
    /\ client[c].playbackRate > RateOne - 40
    /\ client[c].playbackRate < RateOne + 40

\* A queue:add, queue:remove or queue:playNow from socket c for room rid.
QueueCommand(c, rid) ==
  \/ \E url \in QueueUrls, id \in QueueItemIds : QueueAdd(c, rid, url, id)
  \/ \E id \in QueueItemIds : QueueRemove(c, rid, id) \/ QueuePlayNow(c, rid, id)

\* The queue q after one change by socket c: an item appended with c's name
\* and the server clock, the items of one id removed, or the front taken.
QueueChangeBy(c, rid, q) ==
  \/ \E url \in QueueUrls, id \in QueueItemIds :
       /\ QueueAdd(c, rid, url, id)
       /\ q = Append(queues[rid], [id |-> id, url |-> url,
                                   addedBy |-> currentUser[c], addedAt |-> now])
  \/ \E id \in QueueItemIds :
       /\ QueueRemove(c, rid, id) \/ QueuePlayNow(c, rid, id)
       /\ q = SelectSeq(queues[rid], LAMBDA x : x.id # id)
  \/ /\ PlaybackEnded(c, rid)
     /\ q = Tail(queues[rid])

\* C29: a queue:add, queue:remove or queue:playNow from a socket whose
\* identity is not the room's controller leaves the queue and the timeline
\* as they are and answers the caller with a failure; and a queue changes
\* only by an append, a removal by id or the taking of its front item that a
\* socket with the controller's identity asked for.
C29_QueueGated ==
  [][\A rid \in RoomIds :
       /\ \A c \in Conns :
            \/ UNCHANGED <<queues, playbackStates>> /\ reply'.kind = "fail"
            \/ status[c] # "open"
            \/ rid \notin DOMAIN rooms
            \/ rooms[rid].ownerId = currentUser[c]
            \/ ~QueueCommand(c, rid)
       /\ \/ queues'[rid] = queues[rid]
          \/ /\ rid \in DOMAIN rooms
             /\ \E c \in Conns :
                  /\ status[c] = "open"
                  /\ rooms[rid].ownerId = currentUser[c]
                  /\ QueueChangeBy(c, rid, queues'[rid])]_vars

\* C29 witness: a socket that is not the controller has just been refused a
\* queue:playNow in a room with a timeline and two queued items.
C29_Witness ==
  /\ reply = Fail("Only owner can play now")
  /\ emitted = <<>>
  /\ \E rid \in DOMAIN rooms :
       /\ rid \in DOMAIN playbackStates
       /\ Len(queues[rid]) >= 2
       /\ \E c \in Conns :
            /\ status[c] = "open"
            /\ rid \in joined[c]
            /\ currentUser[c] # Null
            /\ currentUser[c] # rooms[rid].ownerId

\* C30: in every reachable state the controller of each room is one of the
\* room's participants, whatever setName, room:create, room:join,
\* room:transferOwner and disconnect events came before, from sockets that
\* may bear the same display name.
C30_OwnerIsParticipant ==
  \A rid \in DOMAIN rooms : InSeq(rooms[rid].participants, rooms[rid].ownerId)

\* C30 witness: a room whose control was transferred holds two open sockets
\* of one display name, after another socket has disconnected.
C30_Witness ==
  \E rid \in DOMAIN rooms :
    /\ HeldByTransfer(rid)
    /\ \E c, d \in Conns :
         /\ c # d
         /\ status[c] = "open" /\ status[d] = "open"
         /\ rid \in joined[c] /\ rid \in joined[d]
         /\ currentUser[c] # Null
         /\ currentUser[c] = currentUser[d]
    /\ \E e \in Conns : status[e] = "closed"

\* C31: with seek targets of at least 0, the positionSec of every timeline is
\* at least 0, and every pause, play and state:init message carries a
\* position of at least 0 - also when the pause or the join is handled after
\* a play and before its start instant.
C31_PositionNonNegative ==
  /\ \A rid \in DOMAIN playbackStates : playbackStates[rid].positionSec >= 0
  /\ \A i \in 1..Len(emitted) :
       emitted[i].ev \in {"pause", "play", "state:init"}
         => emitted[i].positionSec >= 0

\* C32: a control:play handled by the controller while the timeline is
\* running does not move the timeline backward: from the new start instant
\* on, the running formula gives no smaller a position under the new
\* (positionSec, startTime) than under the old one.  Both are linear in the
\* clock with the same slope, so they are compared at the new start instant
\* and one second later.
C32_PlayNotBackward ==
  [][\A c \in Conns, rid \in RoomIds :
       (/\ ControllerWithTrack(c, rid)
        /\ playbackStates[rid].isPlaying
        /\ ControlPlay(c, rid))
       => \A t \in {playbackStates'[rid].startTime,
                    playbackStates'[rid].startTime + 1000} :
            PositionOf(playbackStates'[rid], t) >= PositionOf(playbackStates[rid], t)]_vars

\* C33: for every room there is a live connection whose identity is the
\* room's controller and whose current room is that room.
C33_ControllerConnected ==
  \A rid \in DOMAIN rooms :
    \E c \in Conns :
      /\ status[c] = "open"
      /\ currentUser[c] = rooms[rid].ownerId
      /\ currentRoom[c] = rid

\* C34: identity u is in the participants of room rid if and only if some
\* live connection with identity u has rid as its current room.
C34_MembersAreConnections ==
  \A rid \in DOMAIN rooms, u \in Names :
    InSeq(rooms[rid].participants, u)
      <=> \E c \in Conns :
            /\ status[c] = "open"
            /\ currentUser[c] = u
            /\ currentRoom[c] = rid

\* ------------------------------------------------------------------------
\* Access specification: two sockets, each named once with either name,
\* that create or join either room id, and every command that names a room
\* in its payload, up to MaxAccessCommands of them.  The clock stands still.
\* A pending fetchSockets() callback runs before the next handler.
\* ------------------------------------------------------------------------

AccessConns == {"c1", "c2"}

AccessNames == {"A", "B"}

AccessSetup ==
  \E c \in AccessConns :
    \/ Connect(c)
    \/ \E n \in AccessNames : currentUser[c] = Null /\ SetName(c, n)
    \/ \E rid \in RoomIds : RoomCreate(c, rid)
    \/ \E rid \in RoomIds : RoomJoin(c, rid)

AccessCommand ==
  \E c \in AccessConns, rid \in RoomIds :
    \/ \E url \in Tracks : ControlLoad(c, rid, url)
    \/ ControlPlay(c, rid)
    \/ ControlPause(c, rid)
    \/ \E p \in SeekTargets : ControlSeek(c, rid, p)
    \/ \E url \in Tracks, id \in ItemIds : QueueAdd(c, rid, url, id)
    \/ \E n \in AccessNames : TransferOwner(c, rid, n)

NextAccess ==
  \/ pendingRole = <<>> /\ AccessSetup /\ UNCHANGED clientVars
  \/ /\ pendingRole = <<>>
     /\ issued < MaxAccessCommands
     /\ AccessCommand
     /\ issued' = issued + 1
     /\ UNCHANGED <<wire, client, timers>>
  \/ RoleNotify /\ UNCHANGED clientVars

SpecAccess == Init /\ [][NextAccess]_vars

\* Events the server emits to a whole room with io.to(roomId).emit.
BroadcastEvents ==
  {"room:info", "room:state", "room:ownerChanged", "state:update", "play",
   "pause", "seek", "queue:update"}

\* Socket c has a handler run that names room rid: create (rid being the id
\* generated), join, a timeline command, queue:add or room:transferOwner.
RoomHandler(c, rid) ==
  \/ RoomCreate(c, rid)
  \/ RoomJoin(c, rid)
  \/ ControlCommand(c, rid, Tracks)
  \/ \E url \in Tracks, id \in ItemIds : QueueAdd(c, rid, url, id)
  \/ \E n \in Names : TransferOwner(c, rid, n)

\* C35: a connection receives room broadcasts only for its current room:
\* every broadcast a handler emits for room rid reaches only connections
\* whose current room is rid.
C35_OnlyCurrentRoom ==
  [][\A c \in Conns, rid \in RoomIds :
       \/ emitted' = <<>>
       \/ status[c] # "open"
       \/ ~RoomHandler(c, rid)
       \/ \A i \in 1..Len(emitted') :
            emitted'[i].ev \in BroadcastEvents
              => \A d \in emitted'[i].to : currentRoom'[d] = rid]_vars

\* C36: a room's timeline, queue and controller are changed only by commands
\* of a connection that created or joined the room and has it as its current
\* room.
C36_OnlyMembersCommand ==
  [][\A c \in Conns, rid \in RoomIds :
       \/ UNCHANGED <<rooms, playbackStates, queues>>
       \/ status[c] # "open"
       \/ ~(\/ ControlCommand(c, rid, Tracks)
            \/ \E url \in Tracks, id \in ItemIds : QueueAdd(c, rid, url, id)
            \/ \E n \in Names : TransferOwner(c, rid, n))
       \/ rid \in joined[c] /\ currentRoom[c] = rid]_vars

\* ------------------------------------------------------------------------
\* Room presence (useRoomPresence.ts) and its specification: two sockets
\* with a name each, one room id, joins, transfers and departures, and the
\* delivery of the room notices to the clients, in order.  Room ids do not
\* collide here.  The promise of fetchSockets() is resolved by the adapter:
\* this specification does not fix when, so other handlers may run while a
\* callback is pending.
\* ------------------------------------------------------------------------

\* Events handled by useRoomPresence.
PresenceEvents == {"room:info", "room:state", "room:ownerChanged", "role:update"}

onRoomInfo(cl, m) ==
  [cl EXCEPT !.ownerName = m.ownerName, !.participants = m.participants]

onRoomState(cl, m) ==
  [cl EXCEPT !.ownerName = m.ownerName, !.participants = m.participants]

onOwnerChangedMut(cl, m) == cl

onOwnerChanged(cl, m) == [cl EXCEPT !.ownerName = m.ownerName]

onRoleUpdate(cl, m) == [cl EXCEPT !.ownerName = m.ownerName]

HandleNotice(cl, m) ==
  CASE m.ev = "room:info" -> onRoomInfo(cl, m)
    [] m.ev = "room:state" -> onRoomState(cl, m)
    [] m.ev = "room:ownerChanged" -> onOwnerChanged(cl, m)
    [] m.ev = "role:update" -> onRoleUpdate(cl, m)

\* socket.io carries the room notices of the last handler to their
\* recipients, in order; what is in flight to a closed socket is lost.
NoticeTransport ==
  /\ wire' = [c \in Conns |->
                IF status'[c] # "open" THEN <<>>
                ELSE wire[c] \o SelectSeq(emitted',
                                  LAMBDA m : m.ev \in PresenceEvents /\ c \in m.to)]
  /\ \A c \in Conns : Len(wire'[c]) <= MaxNotices
  /\ UNCHANGED <<client, timers, issued>>

\* The client of socket c handles the oldest notice on its wire.
NoticeDeliver(c) ==
  /\ wire[c] # <<>>
  /\ client' = [client EXCEPT ![c] = HandleNotice(@, Head(wire[c]))]
  /\ wire' = [wire EXCEPT ![c] = Tail(@)]
  /\ UNCHANGED <<serverVars, now, emitted, reply, timers, issued>>

PresenceConns == {"c1", "c2"}

PresenceRoom == "R1"

\* The name the user of socket c gives.
PresenceName(c) == CASE c = "c1" -> "A" [] c = "c2" -> "B" [] OTHER -> "C"

PresenceHandler ==
  \E c \in PresenceConns :
    \/ Connect(c)
    \/ currentUser[c] = Null /\ SetName(c, PresenceName(c))
    \/ PresenceRoom \notin DOMAIN rooms /\ RoomCreate(c, PresenceRoom)
    \/ RoomJoin(c, PresenceRoom)
    \/ \E n \in Names : TransferOwner(c, PresenceRoom, n)
    \/ Disconnect(c)

NextPresence ==
  \/ PresenceHandler /\ Len(pendingRole') <= MaxPending /\ NoticeTransport
  \/ RoleNotify /\ NoticeTransport
  \/ \E c \in PresenceConns : NoticeDeliver(c)

SpecPresence == Init /\ [][NextPresence]_vars

\* Socket c is live and room rid is its current room.
LiveMember(c, rid) ==
  /\ status[c] = "open"
  /\ currentRoom[c] = rid
  /\ rid \in DOMAIN rooms

\* Every notice emitted so far has been handled by its recipient.
AllDelivered == \A c \in Conns : wire[c] = <<>>

C38_MembershipAgrees ==
  AllDelivered
    => \A c \in Conns, rid \in DOMAIN rooms :
         LiveMember(c, rid) => client[c].participants = rooms[rid].participants

C40_LatestOffset ==
  [][\A c \in Conns :
       /\ \/ ~Ticks(c)
          \/ \E actualSec \in AudioReadings :
               client'[c].playbackRate
                 = RateAfterTick(client[c].correction.basePositionSec
                                 + Max0(serverNowMs(client[c], now)
                                        - client[c].correction.startAtServerMs)
                                 - actualSec)
       /\ \A tm \in Fired(c) :
            tm.fireAt + client[c].clockSkewMs
              = tm.startAtServerMs - client[c].offsetMs]_vars

====
